---------------------------- MODULE Spec2Model ----------------------------
(***************************************************************************)
(* Model of the Trustpilot review ingestion pipeline (app/ingest.py,      *)
(* app/dq_rules.py, app/db.py, app/models.py).                            *)
(*                                                                         *)
(* Text values are sequences of one-character strings, so that trimming,  *)
(* matching and parsing are computed character by character as the code   *)
(* does.  Python's None / SQL NULL for a text value is the value None.    *)
(* An optional integer is <<>> (None) or <<n>>.                           *)
(***************************************************************************)
EXTENDS Integers, Sequences, FiniteSets, TLC

(***************************************************************************)
(* Text primitives                                                         *)
(***************************************************************************)

\* Python None / SQL NULL for text values: no text is a sequence holding a
\* four-character element, so None differs from every text, "" included.
None == <<"None">>

\* Python None for an Optional[int].
NoneInt == <<>>

\* Truthiness of an Optional[str]: `not s` in Python.
Falsy(s) == s = None \/ s = <<>>

IsSpace(c) == c \in {" ", "\t"}

DigitChars == <<"0", "1", "2", "3", "4", "5", "6", "7", "8", "9">>

IsDigit(c) == \E i \in 1..Len(DigitChars) : DigitChars[i] = c

DigitVal(c) == (CHOOSE i \in 1..Len(DigitChars) : DigitChars[i] = c) - 1

AllDigits(s) == \A i \in 1..Len(s) : IsDigit(s[i])

RECURSIVE Num(_)
Num(s) == IF s = <<>> THEN 0
          ELSE 10 * Num(SubSeq(s, 1, Len(s) - 1)) + DigitVal(s[Len(s)])

RECURSIVE lstrip(_)
lstrip(s) == IF s # <<>> /\ IsSpace(Head(s)) THEN lstrip(Tail(s)) ELSE s

RECURSIVE rstrip(_)
rstrip(s) == IF s # <<>> /\ IsSpace(s[Len(s)])
             THEN rstrip(SubSeq(s, 1, Len(s) - 1)) ELSE s

\* str.strip()
strip(s) == rstrip(lstrip(s))

\* dq_rules.trim: strips a str, passes None through.
trim(s) == IF s = None THEN None ELSE strip(s)

\* str.lower() on ASCII letters.
UpperChars == <<"A", "B", "C", "D", "E", "F", "G", "H", "I", "J", "K", "L", "M",
                "N", "O", "P", "Q", "R", "S", "T", "U", "V", "W", "X", "Y", "Z">>
LowerChars == <<"a", "b", "c", "d", "e", "f", "g", "h", "i", "j", "k", "l", "m",
                "n", "o", "p", "q", "r", "s", "t", "u", "v", "w", "x", "y", "z">>

Lower(c) == IF \E i \in 1..Len(UpperChars) : UpperChars[i] = c
            THEN LowerChars[CHOOSE i \in 1..Len(UpperChars) : UpperChars[i] = c]
            ELSE c

lower(s) == [i \in 1..Len(s) |-> Lower(s[i])]

\* dict.get(col) and dict.get(col, default) on a raw row (a function from
\* the column names present in the row to texts).
Get(raw, col) == IF col \in DOMAIN raw THEN raw[col] ELSE None

GetOr(raw, col, default) == IF col \in DOMAIN raw THEN raw[col] ELSE default

\* The positions of character c in s.
Positions(s, c) == {i \in 1..Len(s) : s[i] = c}

(***************************************************************************)
(* app/dq_rules.py                                                         *)
(***************************************************************************)

RAW_REQUIRED_COLS ==
    <<"Review Id", "Reviewer Id", "Business Id", "Review Rating", "Review Date">>

\* ---- coerce_int ----------------------------------------------------------
\* float(v) accepts an optional sign followed by a decimal numeral or by
\* inf / infinity / nan in any letter case.  (Exponents, underscores and
\* non-ASCII digits are outside the alphabet of the inputs.)
Unsigned(t) == IF t # <<>> /\ Head(t) \in {"+", "-"} THEN Tail(t) ELSE t

IsNegative(t) == t # <<>> /\ Head(t) = "-"

IsInfWord(t) == lower(t) \in {<<"i", "n", "f">>,
                              <<"i", "n", "f", "i", "n", "i", "t", "y">>}

IsDecimal(t) ==
    /\ \A i \in 1..Len(t) : IsDigit(t[i]) \/ t[i] = "."
    /\ Cardinality(Positions(t, ".")) <= 1
    /\ \E i \in 1..Len(t) : IsDigit(t[i])

\* The digits before the decimal point.
IntDigits(t) == IF Positions(t, ".") = {} THEN t
                ELSE SubSeq(t, 1, (CHOOSE i \in Positions(t, ".") : TRUE) - 1)

\* int(float(t)) for a decimal numeral t: truncation toward zero.
IntOfFloat(t) == IF IsNegative(t) THEN 0 - Num(IntDigits(Unsigned(t)))
                 ELSE Num(IntDigits(Unsigned(t)))

\* int(float("inf")) raises OverflowError, which coerce_int does not catch.
coerce_int_raises(v) == v # None /\ IsInfWord(Unsigned(strip(v)))

\* The value coerce_int returns when it returns: int(float("nan")) and every
\* non-numeral raise ValueError, which is caught and gives None.
coerce_int(v) ==
    IF v = None THEN NoneInt
    ELSE LET t == strip(v) IN
         IF t = <<>> THEN NoneInt
         ELSE IF IsDecimal(Unsigned(t)) THEN <<IntOfFloat(t)>>
         ELSE NoneInt

\* ---- parse_date_to_iso_utc ----------------------------------------------
IsLeap(y) == (y % 4 = 0 /\ y % 100 # 0) \/ y % 400 = 0

DaysInMonth(y, m) == IF m = 2 THEN (IF IsLeap(y) THEN 29 ELSE 28)
                     ELSE IF m \in {4, 6, 9, 11} THEN 30 ELSE 31

IsDate(y, m, d) == /\ y \in 1..9999 /\ m \in 1..12 /\ d \in 1..DaysInMonth(y, m)

IsTime(h, mi, s) == h \in 0..23 /\ mi \in 0..59 /\ s \in 0..59

Pad2(n) == <<DigitChars[(n \div 10) + 1], DigitChars[(n % 10) + 1]>>

Pad4(n) == Pad2(n \div 100) \o Pad2(n % 100)

\* dt.replace(microsecond=0).isoformat().replace("+00:00", "Z") of a UTC time.
IsoZ(y, m, d, h, mi, s) ==
    Pad4(y) \o <<"-">> \o Pad2(m) \o <<"-">> \o Pad2(d) \o <<"T">> \o
    Pad2(h) \o <<":">> \o Pad2(mi) \o <<":">> \o Pad2(s) \o <<"Z">>

\* s[a..b] read as a number, or -1 when it is not all digits.
Field(s, a, b) == IF b <= Len(s) /\ AllDigits(SubSeq(s, a, b))
                  THEN Num(SubSeq(s, a, b)) ELSE 0 - 1

\* "HH:MM" or "HH:MM:SS" starting at position p and ending the text.
TimeAt(s, p) ==
    IF Len(s) = p + 4 /\ s[p + 2] = ":"
    THEN <<Field(s, p, p + 1), Field(s, p + 3, p + 4), 0>>
    ELSE IF Len(s) = p + 7 /\ s[p + 2] = ":" /\ s[p + 5] = ":"
    THEN <<Field(s, p, p + 1), Field(s, p + 3, p + 4), Field(s, p + 6, p + 7)>>
    ELSE <<0 - 1, 0 - 1, 0 - 1>>

\* An optional time part after the 10-character date: nothing, or one
\* separator character followed by a time.  fromisoformat takes any
\* character as the separator (anySep), strptime only the blank.
TimePart(s, anySep) ==
    IF Len(s) = 10 THEN <<0, 0, 0>>
    ELSE IF Len(s) > 11 /\ (anySep \/ s[11] = " ") THEN TimeAt(s, 12)
    ELSE <<0 - 1, 0 - 1, 0 - 1>>

\* YYYY-MM-DD[<sep>HH:MM[:SS]], the shapes of the inputs that
\* datetime.fromisoformat accepts (lines 41-54); no offset, so UTC is assumed.
IsoFields(s) ==
    IF Len(s) >= 10 /\ s[5] = "-" /\ s[8] = "-"
    THEN <<Field(s, 1, 4), Field(s, 6, 7), Field(s, 9, 10)>> \o TimePart(s, TRUE)
    ELSE <<0 - 1, 0 - 1, 0 - 1, 0 - 1, 0 - 1, 0 - 1>>

\* DD/MM/YYYY[ HH:MM:SS] read with day first (dayFirst) or month first, the
\* strptime patterns of lines 26-29.
SlashFields(s, dayFirst) ==
    IF Len(s) \in {10, 19} /\ s[3] = "/" /\ s[6] = "/"
    THEN <<Field(s, 7, 10),
           IF dayFirst THEN Field(s, 4, 5) ELSE Field(s, 1, 2),
           IF dayFirst THEN Field(s, 1, 2) ELSE Field(s, 4, 5)>>
         \o TimePart(s, FALSE)
    ELSE <<0 - 1, 0 - 1, 0 - 1, 0 - 1, 0 - 1, 0 - 1>>

FieldsOk(f) == IsDate(f[1], f[2], f[3]) /\ IsTime(f[4], f[5], f[6])

FieldsIso(f) == IsoZ(f[1], f[2], f[3], f[4], f[5], f[6])

parse_date_to_iso_utc(s0) ==
    IF Falsy(s0) THEN None
    ELSE LET s == strip(s0)
             \* the fast path strips one trailing Z before fromisoformat
             body == IF s # <<>> /\ s[Len(s)] = "Z" THEN SubSeq(s, 1, Len(s) - 1) ELSE s
         IN IF FieldsOk(IsoFields(body)) THEN FieldsIso(IsoFields(body))
            \* the pattern list reads the text as it is (a trailing Z only in
            \* %Y-%m-%dT%H:%M:%SZ, which the fast path has taken already)
            ELSE IF FieldsOk(SlashFields(s, TRUE)) THEN FieldsIso(SlashFields(s, TRUE))
            ELSE IF FieldsOk(SlashFields(s, FALSE)) THEN FieldsIso(SlashFields(s, FALSE))
            ELSE None

\* ---- EMAIL_RE and IP_RE ---------------------------------------------------
\* ^[^@\s]+@[^@\s]+\.[^@\s]+$
EMAIL_RE(s) ==
    /\ Cardinality(Positions(s, "@")) = 1
    /\ \A i \in 1..Len(s) : ~IsSpace(s[i])
    /\ LET at == CHOOSE i \in Positions(s, "@") : TRUE
       IN /\ at > 1
          /\ \E d \in Positions(s, ".") : d > at + 1 /\ d < Len(s)

\* The pieces of s between the occurrences of c: str.split(c).
RECURSIVE Split(_, _)
Split(s, c) ==
    IF Positions(s, c) = {} THEN <<s>>
    ELSE LET p == CHOOSE i \in Positions(s, c) : \A j \in Positions(s, c) : i <= j
         IN <<SubSeq(s, 1, p - 1)>> \o Split(SubSeq(s, p + 1, Len(s)), c)

\* str.join
RECURSIVE Join(_, _)
Join(parts, c) ==
    IF parts = <<>> THEN <<>>
    ELSE IF Len(parts) = 1 THEN parts[1]
    ELSE parts[1] \o <<c>> \o Join(Tail(parts), c)

\* 25[0-5] | 2[0-4]\d | [01]?\d?\d
OctetRe(o) ==
    /\ Len(o) \in 1..3
    /\ AllDigits(o)
    /\ Len(o) = 3 => (o[1] \in {"0", "1"} \/ Num(o) \in 200..255)

HexChars == {"a", "b", "c", "d", "e", "f", "A", "B", "C", "D", "E", "F"}

IsHex(c) == IsDigit(c) \/ c \in HexChars

\* ^((25[0-5]|2[0-4]\d|[01]?\d?\d)(\.(?!$)|$)){4}$
IPv4Re(s) == LET parts == Split(s, ".")
             IN Len(parts) = 4 /\ \A i \in 1..4 : OctetRe(parts[i])

\* ^([0-9a-fA-F]{0,4}:){2,7}[0-9a-fA-F]{0,4}$
IPv6Re(s) == LET parts == Split(s, ":")
             IN /\ Len(parts) \in 3..8
                /\ \A i \in 1..Len(parts) :
                      Len(parts[i]) <= 4 /\ \A j \in 1..Len(parts[i]) : IsHex(parts[i][j])

IP_RE(s) == IPv4Re(s) \/ IPv6Re(s)

\* ---- validate_row -------------------------------------------------------
Err(msg, col, value) == [msg |-> msg, col |-> col, value |-> value]

DupError == Err("Duplicate Review Id within file", "Review Id", None)

\* Only the first missing column is reported.
MissingCols_first(raw, cols) ==
    LET missing == {k \in 1..Len(cols) : cols[k] \notin DOMAIN raw}
    IN IF missing = {} THEN <<>>
       ELSE <<Err("missing required column",
                  cols[CHOOSE k \in missing : \A j \in missing : k <= j], None)>>

\* One "missing required column" error per required column absent from the row.
RECURSIVE MissingCols(_, _)
MissingCols(raw, cols) ==
    IF cols = <<>> THEN <<>>
    ELSE (IF Head(cols) \in DOMAIN raw THEN <<>>
          ELSE <<Err("missing required column", Head(cols), None)>>)
         \o MissingCols(raw, Tail(cols))

\* validate_row raises when coerce_int does.
validate_row_raises(raw) == coerce_int_raises(GetOr(raw, "Review Rating", <<>>))

validate_row(raw) ==
    LET review_id == trim(Get(raw, "Review Id"))
        reviewer_id == trim(Get(raw, "Reviewer Id"))
        business_id == trim(Get(raw, "Business Id"))
        review_rating == coerce_int(GetOr(raw, "Review Rating", <<>>))
        rawdate == Get(raw, "Review Date")
        review_date_iso ==
            parse_date_to_iso_utc(trim(IF Falsy(rawdate) THEN <<>> ELSE rawdate))
        email == trim(Get(raw, "Email Address"))
        ip == trim(Get(raw, "Review IP Address"))
        errors ==
            MissingCols(raw, RAW_REQUIRED_COLS)
            \o (IF Falsy(review_id)
                THEN <<Err("Review Id is null/empty", "Review Id", None)>> ELSE <<>>)
            \o (IF Falsy(reviewer_id)
                THEN <<Err("Reviewer Id is null/empty", "Reviewer Id", None)>> ELSE <<>>)
            \o (IF Falsy(business_id)
                THEN <<Err("Business Id is null/empty", "Business Id", None)>> ELSE <<>>)
            \o (IF review_rating = NoneInt \/ review_rating[1] \notin {1, 2, 3, 4, 5}
                THEN <<Err("Review Rating invalid", "Review Rating",
                           Get(raw, "Review Rating"))>> ELSE <<>>)
            \o (IF Falsy(review_date_iso)
                THEN <<Err("Review Date unparsable", "Review Date", rawdate)>> ELSE <<>>)
            \o (IF ~Falsy(email) /\ ~EMAIL_RE(email)
                THEN <<Err("Email Address invalid", "Email Address", email)>> ELSE <<>>)
            \o (IF ~Falsy(ip) /\ ~IP_RE(ip)
                THEN <<Err("Review IP Address invalid", "Review IP Address", ip)>>
                ELSE <<>>)
        normalized ==
            [user_id |-> reviewer_id,
             email_address |-> IF Falsy(email) THEN None ELSE email,
             user_name |-> trim(Get(raw, "Reviewer Name")),
             reviewer_country |-> trim(Get(raw, "Reviewer Country")),
             business_id |-> business_id,
             business_name |-> trim(Get(raw, "Business Name")),
             review_id |-> review_id,
             review_date |-> review_date_iso,
             review_rating |-> review_rating,
             review_title |-> trim(Get(raw, "Review Title")),
             review_content |-> trim(Get(raw, "Review Content")),
             review_ip_address |-> ip]
    IN [is_valid |-> Len(errors) = 0, errors |-> errors, normalized |-> normalized]

\* ---- validate_batch -----------------------------------------------------
\* The loop of validate_batch from row index idx (zero-based) on, with the
\* set `seen` of trimmed ids met so far; the result is the list dups.
\* The loop with the ids compared as they are written, not trimmed.
BatchScan_untrimmed(rows, idx, seen) ==
    LET ids == [k \in 1..Len(rows) |-> Get(rows[k], "Review Id")]
        flagged == {k \in 1..Len(rows) :
                       /\ k > idx
                       /\ ~Falsy(trim(ids[k]))
                       /\ \E j \in 1..(k - 1) : ids[j] = ids[k]}
        RECURSIVE Asc(_)
        Asc(S) == IF S = {} THEN <<>>
                  ELSE LET m == CHOOSE x \in S : \A y \in S : x <= y
                       IN <<m - 1>> \o Asc(S \ {m})
    IN Asc(flagged)

RECURSIVE BatchScan(_, _, _)
BatchScan(rows, idx, seen) ==
    IF idx >= Len(rows) THEN <<>>
    ELSE LET rid == trim(Get(rows[idx + 1], "Review Id"))
         IN IF ~Falsy(rid)
            THEN IF rid \in seen
                 THEN <<idx>> \o BatchScan(rows, idx + 1, seen)
                 ELSE BatchScan(rows, idx + 1, seen \cup {rid})
            ELSE BatchScan(rows, idx + 1, seen)

\* A batch validation that flags nothing.
validate_batch_none(rows) ==
    [dups |-> <<>>, per_row_errors |-> <<>>]

validate_batch(rows) ==
    LET dups == BatchScan(rows, 0, {})
    IN [dups |-> dups,
        per_row_errors |->
            [i \in {dups[k] : k \in 1..Len(dups)} |->
                <<"Duplicate Review Id within file">>]]

(***************************************************************************)
(* app/ingest.py: redaction helpers                                        *)
(***************************************************************************)

\* hashlib.sha256(b).hexdigest(): the digest of b, written as the token
\* "sha256" followed by b.  Distinct inputs have distinct digests and no
\* digest is a plain text.
sha256_hex(b) == <<"sha256">> \o b

email_hash_value(email) ==
    IF Falsy(email) THEN None ELSE sha256_hex(lower(strip(email)))

redact_name(name) ==
    IF Falsy(name) THEN None
    ELSE LET n == strip(name)
         IN IF n # <<>> THEN <<n[1], "*", "*", "*">> ELSE None

\* ipaddress.IPv4Address(v): four decimal octets of at most three digits,
\* at most 255, without leading zeros.
IsIPv4Address(v) ==
    LET parts == Split(v, ".")
    IN /\ Len(parts) = 4
       /\ \A i \in 1..4 :
            /\ Len(parts[i]) \in 1..3
            /\ AllDigits(parts[i])
            /\ Len(parts[i]) > 1 => parts[i][1] # "0"
            /\ Num(parts[i]) <= 255

\* ipaddress.IPv6Address(v) for texts without "." and "%": three to nine
\* colon-separated parts of at most four hex digits, "::" at most once,
\* eight hextets when there is no "::" and fewer when there is.
IsIPv6Address(v) ==
    LET parts == Split(v, ":")
        n == Len(parts)
        inner == {i \in 2..(n - 1) : parts[i] = <<>>}
        hi == (CHOOSE i \in inner : TRUE) - 1
        lo == n - (CHOOSE i \in inner : TRUE)
        hi2 == IF parts[1] = <<>> THEN hi - 1 ELSE hi
        lo2 == IF parts[n] = <<>> THEN lo - 1 ELSE lo
    IN /\ n \in 3..9
       /\ \A i \in 1..n : Len(parts[i]) <= 4 /\ \A j \in 1..Len(parts[i]) : IsHex(parts[i][j])
       /\ Cardinality(inner) <= 1
       /\ IF inner # {}
          THEN /\ parts[1] = <<>> => hi2 = 0
               /\ parts[n] = <<>> => lo2 = 0
               /\ 8 - (hi2 + lo2) >= 1
          ELSE n = 8 /\ parts[1] # <<>> /\ parts[n] # <<>>

redact_ip(value) ==
    IF Falsy(value) THEN None
    ELSE LET v == strip(value) IN
         IF IsIPv4Address(v)
         THEN Join(SubSeq(Split(v, "."), 1, 3) \o << <<"0">> >>, ".")
         ELSE IF IsIPv6Address(v)
         THEN LET parts == Split(v, ":")
              IN Join([parts EXCEPT ![Len(parts)] = <<"0", "0", "0", "0">>], ":")
         ELSE <<"R", "E", "D", "A", "C", "T", "E", "D">>

(***************************************************************************)
(* The SQLite store: app/models.py (DDL) and the upserts of app/ingest.py  *)
(*                                                                         *)
(* A table is the set of its rows; primary keys are enforced by the        *)
(* ON CONFLICT clauses below, not by the representation.                   *)
(***************************************************************************)

\* ASCII order of the characters that texts are made of.
CharOrder ==
    <<"\t", " ", "*", "+", "-", ".", "/">> \o DigitChars \o <<":", "@">>
    \o UpperChars \o LowerChars

Ord(c) == CHOOSE i \in 1..Len(CharOrder) : CharOrder[i] = c

\* a < b for two texts: byte-wise comparison, a proper prefix first (SQLite's
\* BINARY collation, Python's str ordering).
RECURSIVE TextLess(_, _)
TextLess(a, b) ==
    IF b = <<>> THEN FALSE
    ELSE IF a = <<>> THEN TRUE
    ELSE IF Head(a) = Head(b) THEN TextLess(Tail(a), Tail(b))
    ELSE Ord(Head(a)) < Ord(Head(b))

\* SQL a < b and a > b: not true when either side is NULL.
SqlLess(a, b) == a # None /\ b # None /\ TextLess(a, b)

SqlGreater(a, b) == a # None /\ b # None /\ TextLess(b, a)

COALESCE(a, b) == IF a # None THEN a ELSE b

\* The schema after init_db, with no rows.  audit_seq is the AUTOINCREMENT
\* counter of load_audit.id (sqlite_sequence).
EmptyDb ==
    [business |-> {}, user |-> {}, review |-> {}, metrics_summary |-> {},
     load_audit |-> {}, audit_seq |-> 0]

\* ---- upsert_business -------------------------------------------------------
BusinessConflicts(db, n) == {o \in db.business : o.business_id = n.business_id}

\* business.business_name is NOT NULL; SQLite checks it on the row proposed
\* for insertion before it looks for a conflict.
upsert_business_raises(db, n) == n.business_name = None

\* A merge that forgets to count the review.
BusinessMerge_uncounted(o, n) ==
    [o EXCEPT
        !.business_name = COALESCE(n.business_name, o.business_name),
        !.first_review_date =
            IF o.first_review_date = None \/ SqlLess(n.review_date, o.first_review_date)
            THEN n.review_date ELSE o.first_review_date,
        !.last_review_date =
            IF o.last_review_date = None \/ SqlGreater(n.review_date, o.last_review_date)
            THEN n.review_date ELSE o.last_review_date]

\* A merge that overwrites first_review_date with the incoming date.
BusinessMerge_overwrite(o, n) ==
    [o EXCEPT
        !.business_name = COALESCE(n.business_name, o.business_name),
        !.first_review_date = n.review_date,
        !.last_review_date =
            IF o.last_review_date = None \/ SqlGreater(n.review_date, o.last_review_date)
            THEN n.review_date ELSE o.last_review_date,
        !.total_reviews = o.total_reviews + 1]

BusinessMerge(o, n) ==
    [o EXCEPT
        !.business_name = COALESCE(n.business_name, o.business_name),
        !.first_review_date =
            IF o.first_review_date = None \/ SqlLess(n.review_date, o.first_review_date)
            THEN n.review_date ELSE o.first_review_date,
        !.last_review_date =
            IF o.last_review_date = None \/ SqlGreater(n.review_date, o.last_review_date)
            THEN n.review_date ELSE o.last_review_date,
        !.total_reviews = o.total_reviews + 1]

\* An upsert that replaces the whole table by the incoming business.
upsert_business_only(db, n) ==
    [db EXCEPT !.business =
        {[business_id |-> n.business_id,
          business_name |-> n.business_name,
          first_review_date |-> n.review_date,
          last_review_date |-> n.review_date,
          total_reviews |-> 1]}]

upsert_business(db, n) ==
    LET old == BusinessConflicts(db, n) IN
    IF old = {}
    THEN [db EXCEPT !.business = @ \cup
            {[business_id |-> n.business_id,
              business_name |-> n.business_name,
              first_review_date |-> n.review_date,
              last_review_date |-> n.review_date,
              total_reviews |-> 1]}]
    ELSE [db EXCEPT !.business = (@ \ old) \cup {BusinessMerge(o, n) : o \in old}]

\* ---- upsert_user -----------------------------------------------------------
UserConflicts(db, n) == {o \in db.user : o.user_id = n.user_id}

\* A merge that forgets to count the review for the user.
UserMerge_uncounted(o, n) ==
    [o EXCEPT
        !.email_address = COALESCE(n.email_address, o.email_address),
        !.email_hash = COALESCE(email_hash_value(n.email_address), o.email_hash),
        !.user_name = COALESCE(n.user_name, o.user_name),
        !.user_name_redacted = COALESCE(redact_name(n.user_name), o.user_name_redacted),
        !.reviewer_country = COALESCE(n.reviewer_country, o.reviewer_country),
        !.first_review_date =
            IF o.first_review_date = None \/ SqlLess(n.review_date, o.first_review_date)
            THEN n.review_date ELSE o.first_review_date]

\* A merge that writes the incoming email and name as they are, null or not.
UserMerge_overwrite(o, n) ==
    [o EXCEPT
        !.email_address = n.email_address,
        !.email_hash = COALESCE(email_hash_value(n.email_address), o.email_hash),
        !.user_name = n.user_name,
        !.user_name_redacted = COALESCE(redact_name(n.user_name), o.user_name_redacted),
        !.reviewer_country = COALESCE(n.reviewer_country, o.reviewer_country),
        !.first_review_date =
            IF o.first_review_date = None \/ SqlLess(n.review_date, o.first_review_date)
            THEN n.review_date ELSE o.first_review_date,
        !.total_reviews = o.total_reviews + 1]

UserMerge(o, n) ==
    [o EXCEPT
        !.email_address = COALESCE(n.email_address, o.email_address),
        !.email_hash = COALESCE(email_hash_value(n.email_address), o.email_hash),
        !.user_name = COALESCE(n.user_name, o.user_name),
        !.user_name_redacted = COALESCE(redact_name(n.user_name), o.user_name_redacted),
        !.reviewer_country = COALESCE(n.reviewer_country, o.reviewer_country),
        !.first_review_date =
            IF o.first_review_date = None \/ SqlLess(n.review_date, o.first_review_date)
            THEN n.review_date ELSE o.first_review_date,
        !.total_reviews = o.total_reviews + 1]

upsert_user(db, n) ==
    LET old == UserConflicts(db, n) IN
    IF old = {}
    THEN [db EXCEPT !.user = @ \cup
            {[user_id |-> n.user_id,
              email_address |-> n.email_address,
              email_hash |-> email_hash_value(n.email_address),
              user_name |-> n.user_name,
              user_name_redacted |-> redact_name(n.user_name),
              reviewer_country |-> n.reviewer_country,
              first_review_date |-> n.review_date,
              total_reviews |-> 1]}]
    ELSE [db EXCEPT !.user = (@ \ old) \cup {UserMerge(o, n) : o \in old}]

\* ---- upsert_review ---------------------------------------------------------
ReviewConflicts(db, n) == {o \in db.review : o.review_id = n.review_id}

\* NOT NULL columns of review, and the two foreign keys (PRAGMA
\* foreign_keys=ON), which are checked when a row is really inserted.
upsert_review_raises(db, n) ==
    \/ n.user_id = None
    \/ n.business_id = None
    \/ n.review_date = None
    \/ n.review_rating = NoneInt
    \/ /\ ReviewConflicts(db, n) = {}
       /\ \/ \A b \in db.business : b.business_id # n.business_id
          \/ \A u \in db.user : u.user_id # n.user_id

\* ON CONFLICT DO NOTHING: the stored review wins.
ReviewMerge_first_wins(o, n) == o

\* A merge that also moves the review to the incoming business and user.
ReviewMerge_rekeyed(o, n) ==
    [o EXCEPT
        !.user_id = n.user_id,
        !.business_id = n.business_id,
        !.review_date = n.review_date,
        !.review_rating = n.review_rating,
        !.review_title = n.review_title,
        !.review_content = n.review_content,
        !.review_ip_address = n.review_ip_address,
        !.review_ip_redacted = redact_ip(n.review_ip_address),
        !.source_file = n.source_file,
        !.source_row = n.source_row]

ReviewMerge(o, n) ==
    [o EXCEPT
        !.review_date = n.review_date,
        !.review_rating = n.review_rating,
        !.review_title = n.review_title,
        !.review_content = n.review_content,
        !.review_ip_address = n.review_ip_address,
        !.review_ip_redacted = redact_ip(n.review_ip_address),
        !.source_file = n.source_file,
        !.source_row = n.source_row]

upsert_review(db, n) ==
    LET old == ReviewConflicts(db, n) IN
    IF old = {}
    THEN [db EXCEPT !.review = @ \cup
            {[review_id |-> n.review_id,
              user_id |-> n.user_id,
              business_id |-> n.business_id,
              review_date |-> n.review_date,
              review_rating |-> n.review_rating,
              review_title |-> n.review_title,
              review_content |-> n.review_content,
              review_ip_address |-> n.review_ip_address,
              review_ip_redacted |-> redact_ip(n.review_ip_address),
              source_file |-> n.source_file,
              source_row |-> n.source_row]}]
    ELSE [db EXCEPT !.review = (@ \ old) \cup {ReviewMerge(o, n) : o \in old}]

\* ---- the views of models.py ------------------------------------------------
\* v_reviews_public, lines 81-91.
v_reviews_public(db) ==
    {[review_id |-> r.review_id, business_id |-> r.business_id,
      user_id |-> r.user_id, review_date |-> r.review_date,
      review_rating |-> r.review_rating, review_title |-> r.review_title,
      review_content |-> r.review_content] : r \in db.review}

\* A private view that selects the raw IP column.
v_reviews_private_raw_ip(db) ==
    {[review_id |-> p[1].review_id, business_id |-> p[1].business_id,
      user_id |-> p[1].user_id, review_date |-> p[1].review_date,
      review_rating |-> p[1].review_rating, review_title |-> p[1].review_title,
      review_content |-> p[1].review_content,
      email_address |-> p[2].email_hash,
      user_name |-> p[2].user_name_redacted,
      review_ip_address |-> p[1].review_ip_address] :
        p \in {q \in db.review \X db.user : q[2].user_id = q[1].user_id}}

\* v_reviews_private, lines 93-107: review joined with "user" on user_id.
v_reviews_private(db) ==
    {[review_id |-> p[1].review_id, business_id |-> p[1].business_id,
      user_id |-> p[1].user_id, review_date |-> p[1].review_date,
      review_rating |-> p[1].review_rating, review_title |-> p[1].review_title,
      review_content |-> p[1].review_content,
      email_address |-> p[2].email_hash,
      user_name |-> p[2].user_name_redacted,
      review_ip_address |-> p[1].review_ip_redacted] :
        p \in {q \in db.review \X db.user : q[2].user_id = q[1].user_id}}

\* An audit insert that writes rows_rejected where rows_loaded belongs.
insert_load_audit_swapped(db, file, sha256, rows_in, rows_loaded, rows_rejected, dq_pass, dq_fail) ==
    [db EXCEPT
        !.audit_seq = @ + 1,
        !.load_audit = @ \cup
            {[id |-> db.audit_seq + 1, file |-> file, sha256 |-> sha256,
              rows_in |-> rows_in, rows_loaded |-> rows_rejected,
              rows_rejected |-> rows_rejected,
              dq_pass |-> dq_pass, dq_fail |-> dq_fail]}]

\* An audit insert that keeps one row per file (INSERT OR REPLACE by file).
insert_load_audit_replace(db, file, sha256, rows_in, rows_loaded, rows_rejected, dq_pass, dq_fail) ==
    [db EXCEPT
        !.audit_seq = @ + 1,
        !.load_audit = {a \in @ : a.file # file} \cup
            {[id |-> db.audit_seq + 1, file |-> file, sha256 |-> sha256,
              rows_in |-> rows_in, rows_loaded |-> rows_loaded,
              rows_rejected |-> rows_rejected,
              dq_pass |-> dq_pass, dq_fail |-> dq_fail]}]

\* An audit insert that is forgotten.
insert_load_audit_none(db, file, sha256, rows_in, rows_loaded, rows_rejected, dq_pass, dq_fail) ==
    db

\* ---- INSERT INTO load_audit (process_file, lines 305-312) -------------------
\* loaded_at, the wall-clock default, is left out of the row.
insert_load_audit(db, file, sha256, rows_in, rows_loaded, rows_rejected, dq_pass, dq_fail) ==
    [db EXCEPT
        !.audit_seq = @ + 1,
        !.load_audit = @ \cup
            {[id |-> db.audit_seq + 1, file |-> file, sha256 |-> sha256,
              rows_in |-> rows_in, rows_loaded |-> rows_loaded,
              rows_rejected |-> rows_rejected,
              dq_pass |-> dq_pass, dq_fail |-> dq_fail]}]

\* ---- compute_metrics_summary ----------------------------------------------
\* date(review_date) of an ISO-8601 text: its first ten characters.
SqlDate(d) == SubSeq(d, 1, 10)

RECURSIVE SumRatings(_)
SumRatings(rs) ==
    IF rs = {} THEN 0
    ELSE LET r == CHOOSE x \in rs : TRUE
         IN r.review_rating[1] + SumRatings(rs \ {r})

\* AVG(review_rating) is the rational sum / count, kept as the pair.
compute_metrics_summary(db) ==
    LET groups == {<<r.business_id, SqlDate(r.review_date)>> : r \in db.review}
        members(g) == {r \in db.review :
                          r.business_id = g[1] /\ SqlDate(r.review_date) = g[2]}
        stars(g, k) == Cardinality({r \in members(g) : r.review_rating = <<k>>})
    IN [db EXCEPT !.metrics_summary =
          {[business_id |-> g[1],
            period_start_date |-> g[2],
            total_reviews |-> Cardinality(members(g)),
            avg_rating |-> <<SumRatings(members(g)), Cardinality(members(g))>>,
            rating_1 |-> stars(g, 1), rating_2 |-> stars(g, 2),
            rating_3 |-> stars(g, 3), rating_4 |-> stars(g, 4),
            rating_5 |-> stars(g, 5)] : g \in groups}]

(***************************************************************************)
(* app/ingest.py: files                                                    *)
(***************************************************************************)

\* os.path.basename: the text after the last "/".
basename(path) == LET parts == Split(path, "/") IN parts[Len(parts)]

\* os.path.splitext(name)[0]: the name up to its last ".", unless that dot
\* leads the name.
splitext0(name) ==
    LET dots == {i \in Positions(name, ".") : i > 1}
    IN IF dots = {} THEN name
       ELSE SubSeq(name, 1, (CHOOSE i \in dots : \A j \in dots : j <= i) - 1)

(***************************************************************************)
(* Inputs: the workbooks the environment may put on disk                   *)
(***************************************************************************)

\* The header of the export, as in tests/test_ingest.py.
Header ==
    <<"Review Id", "Reviewer Id", "Business Id", "Review Rating", "Review Date",
      "Review Title", "Review Content", "Email Address", "Review IP Address",
      "Reviewer Name", "Reviewer Country", "Business Name">>

\* A fully valid row: review r1 of business b1 by user u1.
RowA ==
    ("Review Id" :> <<"r", "1">>) @@ ("Reviewer Id" :> <<"u", "1">>) @@
    ("Business Id" :> <<"b", "1">>) @@ ("Review Rating" :> <<"5">>) @@
    ("Review Date" :> <<"2", "0", "2", "4", "-", "0", "1", "-", "0", "1">>) @@
    ("Review Title" :> <<"o", "k">>) @@ ("Review Content" :> <<>>) @@
    ("Email Address" :> <<"A", "@", "b", ".", "c">>) @@
    ("Review IP Address" :> <<"1", ".", "2", ".", "3", ".", "4">>) @@
    ("Reviewer Name" :> <<"A", "l">>) @@ ("Reviewer Country" :> <<"G", "B">>) @@
    ("Business Name" :> <<"W">>)

\* r1 again (with a leading blank), with an invalid email and an invalid IP;
\* the trailing cells are absent, as in the second row of the test.
RowADup ==
    ("Review Id" :> <<" ", "r", "1">>) @@ ("Reviewer Id" :> <<"u", "2">>) @@
    ("Business Id" :> <<"b", "1">>) @@ ("Review Rating" :> <<"4">>) @@
    ("Review Date" :> <<"2", "0", "2", "4", "-", "0", "1", "-", "0", "2">>) @@
    ("Review Title" :> <<>>) @@ ("Review Content" :> <<>>) @@
    ("Email Address" :> <<"b", "a", "d">>) @@
    ("Review IP Address" :> <<"9", "9", "9", ".", "1", ".", "1", ".", "1">>)

\* A valid row r2 for the same business and user, dated earlier in DD/MM/YYYY,
\* with rating "3.0", a blank reviewer name, no email and an empty business name.
RowC ==
    ("Review Id" :> <<"r", "2">>) @@ ("Reviewer Id" :> <<"u", "1">>) @@
    ("Business Id" :> <<"b", "1">>) @@ ("Review Rating" :> <<"3", ".", "0">>) @@
    ("Review Date" :> <<"0", "1", "/", "0", "6", "/", "2", "0", "2", "3">>) @@
    ("Review Title" :> <<>>) @@ ("Review Content" :> <<"c">>) @@
    ("Email Address" :> <<>>) @@ ("Review IP Address" :> <<>>) @@
    ("Reviewer Name" :> <<" ">>) @@ ("Reviewer Country" :> <<>>) @@
    ("Business Name" :> <<>>)

\* A valid row that re-submits r1 for another business and user, dated earlier.
RowB ==
    ("Review Id" :> <<"r", "1">>) @@ ("Reviewer Id" :> <<"u", "2">>) @@
    ("Business Id" :> <<"b", "2">>) @@ ("Review Rating" :> <<"4">>) @@
    ("Review Date" :> <<"2", "0", "2", "3", "-", "0", "6", "-", "0", "1", "T",
                        "1", "0", ":", "0", "0", ":", "0", "0", "Z">>) @@
    ("Review Title" :> <<"t">>) @@ ("Review Content" :> <<>>) @@
    ("Email Address" :> <<>>) @@
    ("Review IP Address" :> <<":", ":", "1">>) @@
    ("Reviewer Name" :> <<"B", "o">>) @@ ("Reviewer Country" :> <<>>) @@
    ("Business Name" :> <<"V">>)

\* r3 with a rating out of range.
RowBadRating ==
    ("Review Id" :> <<"r", "3">>) @@ ("Reviewer Id" :> <<"u", "1">>) @@
    ("Business Id" :> <<"b", "1">>) @@ ("Review Rating" :> <<"9">>) @@
    ("Review Date" :> <<"2", "0", "2", "4", "-", "0", "1", "-", "0", "1">>) @@
    ("Review Title" :> <<>>) @@ ("Review Content" :> <<>>) @@
    ("Email Address" :> <<>>) @@ ("Review IP Address" :> <<>>) @@
    ("Reviewer Name" :> <<>>) @@ ("Reviewer Country" :> <<>>) @@
    ("Business Name" :> <<"W">>)

\* r3 again, this time valid on its own.
RowR3 ==
    ("Review Id" :> <<"r", "3">>) @@ ("Reviewer Id" :> <<"u", "1">>) @@
    ("Business Id" :> <<"b", "1">>) @@ ("Review Rating" :> <<"2">>) @@
    ("Review Date" :> <<"2", "0", "2", "4", "-", "0", "1", "-", "0", "1">>) @@
    ("Review Title" :> <<>>) @@ ("Review Content" :> <<>>) @@
    ("Email Address" :> <<>>) @@ ("Review IP Address" :> <<>>) @@
    ("Reviewer Name" :> <<>>) @@ ("Reviewer Country" :> <<>>) @@
    ("Business Name" :> <<"W">>)

\* A valid row r6 whose IP address has a last octet of 0.
RowZeroIp ==
    ("Review Id" :> <<"r", "6">>) @@ ("Reviewer Id" :> <<"u", "2">>) @@
    ("Business Id" :> <<"b", "2">>) @@ ("Review Rating" :> <<"2">>) @@
    ("Review Date" :> <<"2", "0", "2", "4", "-", "0", "3", "-", "0", "5">>) @@
    ("Review Title" :> <<>>) @@ ("Review Content" :> <<>>) @@
    ("Email Address" :> <<"c", "@", "d", ".", "e">>) @@
    ("Review IP Address" :> <<"5", ".", "6", ".", "7", ".", "0">>) @@
    ("Reviewer Name" :> <<"B">>) @@ ("Reviewer Country" :> <<>>) @@
    ("Business Name" :> <<"V">>)

\* A row that passes every check and has no Business Name cell.
RowNoName ==
    ("Review Id" :> <<"r", "4">>) @@ ("Reviewer Id" :> <<"u", "2">>) @@
    ("Business Id" :> <<"b", "2">>) @@ ("Review Rating" :> <<"1">>) @@
    ("Review Date" :> <<"2", "0", "2", "4", "-", "0", "1", "-", "0", "3">>) @@
    ("Review Title" :> <<>>) @@ ("Review Content" :> <<>>) @@
    ("Email Address" :> <<>>) @@ ("Review IP Address" :> <<>>) @@
    ("Reviewer Name" :> <<>>) @@ ("Reviewer Country" :> <<>>)

\* A row whose rating cell holds the text inf.
RowInf ==
    ("Review Id" :> <<"r", "5">>) @@ ("Reviewer Id" :> <<"u", "1">>) @@
    ("Business Id" :> <<"b", "1">>) @@ ("Review Rating" :> <<"i", "n", "f">>) @@
    ("Review Date" :> <<"2", "0", "2", "4", "-", "0", "1", "-", "0", "1">>) @@
    ("Review Title" :> <<>>) @@ ("Review Content" :> <<>>) @@
    ("Email Address" :> <<>>) @@ ("Review IP Address" :> <<>>) @@
    ("Reviewer Name" :> <<>>) @@ ("Reviewer Country" :> <<>>) @@
    ("Business Name" :> <<"W">>)

\* A workbook is its byte content (named), its header row and its data rows
\* with every cell in string form.
Workbook(bytes, rows) == [bytes |-> bytes, header |-> Header, rows |-> rows]

Workbooks ==
    {Workbook(<<"f", "1">>, <<RowA, RowADup, RowC>>),
     Workbook(<<"f", "2">>, <<RowB, RowBadRating, RowR3, RowZeroIp>>),
     Workbook(<<"f", "3">>, <<RowA, RowNoName>>),
     Workbook(<<"f", "4">>, <<RowC, RowInf>>),
     Workbook(<<"f", "5">>, <<>>)}

\* No file at the path.
Absent == [bytes |-> <<>>, header |-> <<>>, rows |-> <<>>]

Paths == {<<"d", "/", "a", ".", "x", "l", "s", "x">>,
          <<"d", "/", "b", ".", "x", "l", "s", "x">>}

\* The number of build_stage_and_load runs explored.
MaxRuns == 2

(***************************************************************************)
(* State                                                                   *)
(***************************************************************************)
VARIABLES
    disk,        \* path -> workbook at that path, or Absent
    store,       \* the committed content of the SQLite database
    conn,        \* the content seen through the open connection (its
                 \* uncommitted transaction included); equals store when no
                 \* connection is open
    quarantine,  \* the quarantine artifacts written so far, in order
    stage,       \* the rows of the stage artifact last written
    run,         \* the frame of build_stage_and_load
    pf,          \* the frame of the current (or last) process_file call
    journal,     \* history: the normalized rows upserted, as seen through
                 \* the connection (view) and as committed (durable)
    call         \* the last direct call of a validator or of an API
                 \* endpoint, with its arguments and its outcome

vars == <<disk, store, conn, quarantine, stage, run, pf, journal, call>>

\* sha256_file(path)
sha256_file(path) == sha256_hex(disk[path].bytes)

\* read_xlsx_rows(path): the header and the rows of the workbook, whose cells
\* are held in the string form the reader gives them.
read_xlsx_rows(path) == <<disk[path].header, disk[path].rows>>

\* sorted(set(files)) of the paths that exist: discover_files.
RECURSIVE SortPaths(_)
SortPaths(ps) ==
    IF ps = {} THEN <<>>
    ELSE LET m == CHOOSE p \in ps : \A q \in ps \ {p} : TextLess(p, q)
         IN <<m>> \o SortPaths(ps \ {m})

discover_files == SortPaths({p \in Paths : disk[p] # Absent})

\* A lookup that never finds the file.
prior_never(db, path, file_hash) ==
    \E a \in db.load_audit : a.file = path /\ a.sha256 = file_hash /\ a.id = 0

\* The SELECT of process_file, lines 260-263.
prior(db, path, file_hash) ==
    \E a \in db.load_audit : a.file = path /\ a.sha256 = file_hash

\* No direct call has been made.
NoCall == [fn |-> "none"]

NoFrame ==
    [outcome |-> "none", path |-> <<>>, file_hash |-> <<>>, header |-> <<>>,
     raw_rows |-> <<>>, dups |-> <<>>, i |-> 0, bad_rows |-> <<>>,
     good_norm |-> <<>>, j |-> 0,
     rows_in |-> 0, rows_loaded |-> 0, rows_rejected |-> 0,
     dq_pass |-> 0, dq_fail |-> 0,
     pre |-> EmptyDb, pre_quarantine |-> 0, ret |-> <<>>]

IdleRun(n, result) ==
    [pc |-> "idle", files |-> <<>>, idx |-> 1, agg |-> <<0, 0, 0, 0, 0>>,
     stage_rows |-> <<>>, nruns |-> n, result |-> result, ret |-> <<>>]

\* No stage artifact has been written.
NoStage == [columns |-> <<>>, rows |-> <<>>]

Init ==
    /\ disk = [p \in Paths |-> Absent]
    /\ store = EmptyDb
    /\ conn = EmptyDb
    /\ quarantine = <<>>
    /\ stage = NoStage
    /\ run = IdleRun(0, "none")
    /\ pf = NoFrame
    /\ journal = [view |-> <<>>, durable |-> <<>>]
    /\ call = NoCall

(***************************************************************************)
(* process_file, step by step                                              *)
(***************************************************************************)

\* Is zero-based index idx in the list dups?
InDups(idx, dups) == \E k \in 1..Len(dups) : dups[k] = idx

\* Errors without the duplicate error of validate_batch.
row_errs_no_dup(raw, idx, dups) == validate_row(raw).errors

\* Lines 278-281: the errors of validate_row, then the duplicate error.
row_errs(raw, idx, dups) ==
    validate_row(raw).errors
    \o (IF InDups(idx, dups) THEN <<DupError>> ELSE <<>>)

\* is_ok alone.
row_is_good_is_ok(raw, idx, dups) == validate_row(raw).is_valid

\* Line 283: is_ok and not errs.
row_is_good(raw, idx, dups) ==
    validate_row(raw).is_valid /\ row_errs(raw, idx, dups) = <<>>

\* Lines 285-286: the normalized row with its lineage.
with_lineage(norm, source_file, source_row) ==
    [user_id |-> norm.user_id,
     email_address |-> norm.email_address,
     user_name |-> norm.user_name,
     reviewer_country |-> norm.reviewer_country,
     business_id |-> norm.business_id,
     business_name |-> norm.business_name,
     review_id |-> norm.review_id,
     review_date |-> norm.review_date,
     review_rating |-> norm.review_rating,
     review_title |-> norm.review_title,
     review_content |-> norm.review_content,
     review_ip_address |-> norm.review_ip_address,
     source_file |-> source_file,
     source_row |-> source_row]

\* An artifact that keeps only the first error of each row.
write_quarantine_first_error(name, header, bad_rows) ==
    [basename |-> name,
     header |-> header \o <<"__reason__">>,
     rows |-> [k \in 1..Len(bad_rows) |->
                 [cells |-> [c \in 1..Len(header) |->
                                GetOr(bad_rows[k].raw, header[c], <<>>)],
                  reason |-> <<Head(bad_rows[k].errs)>>]]]

\* write_quarantine: the artifact named after the file, holding the header
\* plus __reason__ and, per bad row, its cells under the header and its
\* errors (joined by "; " in the file).
write_quarantine(name, header, bad_rows) ==
    [basename |-> name,
     header |-> header \o <<"__reason__">>,
     rows |-> [k \in 1..Len(bad_rows) |->
                 [cells |-> [c \in 1..Len(header) |->
                                GetOr(bad_rows[k].raw, header[c], <<>>)],
                  reason |-> bad_rows[k].errs]]]

\* The rows of the file from row i on that have no error, normalized and
\* with their lineage, in file order.
RECURSIVE RowsWithoutError(_, _, _, _)
RowsWithoutError(path, rows, dups, i) ==
    IF i > Len(rows) THEN <<>>
    ELSE (IF row_errs(rows[i], i - 1, dups) = <<>>
          THEN <<with_lineage(validate_row(rows[i]).normalized, basename(path), i + 1)>>
          ELSE <<>>)
         \o RowsWithoutError(path, rows, dups, i + 1)

\* db after the three upserts of each row of ns, in order.
RECURSIVE LoadRows(_, _)
LoadRows(db, ns) ==
    IF ns = <<>> THEN db
    ELSE LoadRows(upsert_review(upsert_user(upsert_business(db, Head(ns)), Head(ns)),
                                Head(ns)),
                  Tail(ns))

\* The store after a process_file call on workbook w at path that is not
\* skipped and completes: lines 268-312 as one function.
Loaded(db, path, w) ==
    LET good == RowsWithoutError(path, w.rows, validate_batch(w.rows).dups, 1)
        bad == Len(w.rows) - Len(good)
    IN insert_load_audit(LoadRows(db, good), path, sha256_hex(w.bytes),
                         Len(w.rows), Len(good), bad, Len(good), bad)

\* Lines 255-265, the file is already in load_audit: return zeros.
ProcessFileSkip ==
    /\ run.pc = "loop"
    /\ run.idx <= Len(run.files)
    /\ LET path == run.files[run.idx]
           file_hash == sha256_file(path)
       IN /\ prior(conn, path, file_hash)
          /\ pf' = [NoFrame EXCEPT !.outcome = "skipped", !.path = path,
                                   !.file_hash = file_hash, !.pre = conn,
                                   !.pre_quarantine = Len(quarantine),
                                   !.ret = <<0, 0, 0, 0, 0, <<>> >>]
          \* lines 335-341 with an all-zero result
          /\ run' = [run EXCEPT !.idx = @ + 1]
    /\ UNCHANGED <<call, disk, store, conn, quarantine, stage, journal>>

\* Lines 255-274: hash, no prior audit row, read the rows, validate_batch.
ProcessFileBegin ==
    /\ run.pc = "loop"
    /\ run.idx <= Len(run.files)
    /\ LET path == run.files[run.idx]
           file_hash == sha256_file(path)
           read == read_xlsx_rows(path)
       IN /\ ~prior(conn, path, file_hash)
          /\ pf' = [NoFrame EXCEPT !.outcome = "running", !.path = path,
                                   !.file_hash = file_hash,
                                   !.header = read[1], !.raw_rows = read[2],
                                   !.dups = validate_batch(read[2]).dups,
                                   !.pre = conn,
                                   !.pre_quarantine = Len(quarantine)]
    /\ run' = [run EXCEPT !.pc = "validate"]
    /\ UNCHANGED <<call, disk, store, conn, quarantine, stage, journal>>

\* One pass of the loop of lines 276-292.
ValidateRow ==
    /\ run.pc = "validate"
    /\ pf.i < Len(pf.raw_rows)
    /\ LET raw == pf.raw_rows[pf.i + 1]
           xlsx_rownum == pf.i + 2
       IN IF validate_row_raises(raw)
          THEN /\ pf' = [pf EXCEPT !.outcome = "raised", !.rows_in = @ + 1]
               /\ run' = [run EXCEPT !.pc = "raised"]
          ELSE /\ run' = run
               /\ IF row_is_good(raw, pf.i, pf.dups)
                  THEN pf' = [pf EXCEPT
                         !.i = @ + 1,
                         !.rows_in = @ + 1,
                         !.dq_pass = @ + 1,
                         !.good_norm = Append(@,
                             with_lineage(validate_row(raw).normalized,
                                          basename(pf.path), xlsx_rownum))]
                  ELSE pf' = [pf EXCEPT
                         !.i = @ + 1,
                         !.rows_in = @ + 1,
                         !.dq_fail = @ + 1,
                         !.rows_rejected = @ + 1,
                         !.bad_rows = Append(@,
                             [rownum |-> xlsx_rownum, raw |-> raw,
                              errs |-> row_errs(raw, pf.i, pf.dups)])]
    /\ UNCHANGED <<call, disk, store, conn, quarantine, stage, journal>>

\* Lines 294-296: one quarantine artifact when there are bad rows.
QuarantineStep ==
    /\ run.pc = "validate"
    /\ pf.i = Len(pf.raw_rows)
    /\ quarantine' =
         IF pf.bad_rows # <<>>
         THEN Append(quarantine,
                     write_quarantine(splitext0(basename(pf.path)), pf.header, pf.bad_rows))
         ELSE quarantine
    /\ run' = [run EXCEPT !.pc = "upsert"]
    /\ UNCHANGED <<call, disk, store, conn, stage, pf, journal>>

\* One pass of the loop of lines 299-303.  A statement that raises leaves the
\* earlier statements of the transaction in place.
UpsertRow ==
    /\ run.pc = "upsert"
    /\ pf.j < Len(pf.good_norm)
    /\ LET n == pf.good_norm[pf.j + 1]
           c1 == upsert_business(conn, n)
           c2 == upsert_user(c1, n)
           c3 == upsert_review(c2, n)
       IN IF upsert_business_raises(conn, n)
          THEN /\ conn' = conn
               /\ pf' = [pf EXCEPT !.outcome = "raised"]
               /\ run' = [run EXCEPT !.pc = "raised"]
               /\ journal' = journal
          ELSE IF upsert_review_raises(c2, n)
          THEN /\ conn' = c2
               /\ pf' = [pf EXCEPT !.outcome = "raised"]
               /\ run' = [run EXCEPT !.pc = "raised"]
               /\ journal' = journal
          ELSE /\ conn' = c3
               /\ pf' = [pf EXCEPT !.j = @ + 1, !.rows_loaded = @ + 1]
               /\ run' = run
               /\ journal' = [journal EXCEPT !.view = Append(@, n)]
    /\ UNCHANGED <<call, disk, store, quarantine, stage>>

\* Lines 305-314 and the caller's lines 335-341: insert the audit row,
\* return, add the result to the run's totals.
RecordAudit ==
    /\ run.pc = "upsert"
    /\ pf.j = Len(pf.good_norm)
    /\ conn' = insert_load_audit(conn, pf.path, pf.file_hash, pf.rows_in,
                                 pf.rows_loaded, pf.rows_rejected,
                                 pf.dq_pass, pf.dq_fail)
    /\ pf' = [pf EXCEPT !.outcome = "completed",
                        !.ret = <<pf.rows_in, pf.rows_loaded, pf.rows_rejected,
                                  pf.dq_pass, pf.dq_fail, pf.good_norm>>]
    /\ run' = [run EXCEPT
                 !.pc = "loop",
                 !.idx = @ + 1,
                 !.agg = <<@[1] + pf.rows_in, @[2] + pf.rows_loaded,
                           @[3] + pf.rows_rejected, @[4] + pf.dq_pass,
                           @[5] + pf.dq_fail>>,
                 !.stage_rows = @ \o pf.good_norm]
    /\ UNCHANGED <<call, disk, store, quarantine, stage, journal>>

(***************************************************************************)
(* build_stage_and_load, compute_metrics_summary and the environment       *)
(***************************************************************************)

\* Lines 325-333: discover the files, init_db (the schema exists already),
\* open the connection.
StartRun ==
    /\ run.pc = "idle"
    /\ run.nruns < MaxRuns
    /\ run' = [pc |-> "loop", files |-> discover_files, idx |-> 1,
               agg |-> <<0, 0, 0, 0, 0>>, stage_rows |-> <<>>,
               nruns |-> run.nruns + 1, result |-> "none", ret |-> <<>>]
    /\ conn' = store
    /\ pf' = NoFrame
    /\ UNCHANGED <<call, disk, store, quarantine, stage, journal>>

\* db.connect, lines 25-28: the with block ends normally, so the one
\* transaction of the connection is committed.
Commit ==
    /\ run.pc = "loop"
    /\ run.idx > Len(run.files)
    /\ store' = conn
    /\ journal' = [journal EXCEPT !.durable = journal.view]
    /\ run' = [run EXCEPT !.pc = "stage"]
    /\ UNCHANGED <<call, disk, conn, quarantine, stage, pf>>

\* An artifact that holds only the first row.
write_stage_parquet_head(normalized_rows) ==
    [columns |->
        <<"review_id", "user_id", "business_id", "review_date", "review_rating",
          "review_title", "review_content", "review_ip_address",
          "email_address", "user_name", "reviewer_country", "business_name",
          "source_file", "source_row">>,
     rows |-> <<Head(normalized_rows)>>]

\* write_stage_parquet: a table of the rows, one line each in the order
\* given, under the preferred column order (every normalized row has all
\* fourteen keys).
write_stage_parquet(normalized_rows) ==
    [columns |->
        <<"review_id", "user_id", "business_id", "review_date", "review_rating",
          "review_title", "review_content", "review_ip_address",
          "email_address", "user_name", "reviewer_country", "business_name",
          "source_file", "source_row">>,
     rows |-> normalized_rows]

\* Lines 343-350.
WriteStage ==
    /\ run.pc = "stage"
    /\ stage' = IF run.stage_rows # <<>> THEN write_stage_parquet(run.stage_rows)
                ELSE stage
    /\ run' = [run EXCEPT
                 !.pc = "idle",
                 !.result = "returned",
                 \* (total_files, *agg, written_count)
                 !.ret = <<Len(run.files)>> \o run.agg \o
                         <<IF run.stage_rows # <<>> THEN Len(run.stage_rows) ELSE 0>>]
    /\ UNCHANGED <<call, disk, store, conn, quarantine, pf, journal>>

\* A connection that commits when an exception leaves the with block.
Abort_commits ==
    /\ run.pc = "raised"
    /\ store' = conn
    /\ journal' = [journal EXCEPT !.durable = journal.view]
    /\ run' = [run EXCEPT !.pc = "idle", !.result = "raised"]
    /\ UNCHANGED <<call, disk, conn, quarantine, stage, pf>>

\* db.connect, lines 27-28: an exception leaves the with block through
\* finally, which closes the connection without commit; SQLite rolls the
\* open transaction back.
Abort ==
    /\ run.pc = "raised"
    /\ conn' = store
    /\ journal' = [journal EXCEPT !.view = journal.durable]
    /\ run' = [run EXCEPT !.pc = "idle", !.result = "raised"]
    /\ UNCHANGED <<call, disk, store, quarantine, stage, pf>>

\* __main__, lines 406-407: compute_metrics_summary in a connection of its own.
ComputeMetricsSummary ==
    /\ run.pc = "idle"
    /\ store' = compute_metrics_summary(store)
    /\ store' # store
    /\ conn' = store'
    /\ UNCHANGED <<call, disk, quarantine, stage, run, pf, journal>>

\* The environment writes a workbook to a path between two runs.
PutFile ==
    /\ run.pc = "idle"
    /\ run.nruns < MaxRuns
    /\ \E p \in Paths, w \in Workbooks :
          /\ disk[p] # w
          /\ disk' = [disk EXCEPT ![p] = w]
    /\ UNCHANGED <<call, store, conn, quarantine, stage, run, pf, journal>>

Next ==
    \/ PutFile
    \/ StartRun
    \/ ProcessFileSkip
    \/ ProcessFileBegin
    \/ ValidateRow
    \/ QuarantineStep
    \/ UpsertRow
    \/ RecordAudit
    \/ Commit
    \/ WriteStage
    \/ Abort
    \/ ComputeMetricsSummary

Spec == Init /\ [][Next]_vars

(***************************************************************************)
(* Direct calls of the validators, as tests/test_dq_rules.py makes them    *)
(***************************************************************************)

\* The longest list of rows given to validate_batch.
MaxBatch == 4

\* A raw row holding the cells that are present (a cell of None is absent
\* from the row, so dict.get gives None for it).
RawRow(cells) == [c \in {col \in DOMAIN cells : cells[col] # None} |-> cells[c]]

IdCells ==
    {None, <<>>, <<" ">>, <<"d", "u", "p", "-", "1">>, <<" ", "d", "u", "p", "-", "1", " ">>, <<"u", "n", "i", "q", "u", "e">>}

BatchInputs ==
    UNION {[1..n -> {RawRow("Review Id" :> c) : c \in IdCells}] : n \in 0..MaxBatch}

RowInputs ==
    {RawRow(("Review Id" :> id) @@ ("Reviewer Id" :> reviewer) @@
            ("Business Id" :> business) @@ ("Review Rating" :> rating) @@
            ("Review Date" :> date) @@ ("Email Address" :> email) @@
            ("Review IP Address" :> ip)) :
        id \in {None, <<" ">>, <<"r", "-", "1">>},
        reviewer \in {<<>>, <<"u", "-", "1">>},
        business \in {None, <<"b", "-", "1">>},
        rating \in {None, <<>>, <<"5">>, <<"3", ".", "0">>, <<"7">>, <<"a", "b", "c">>, <<"i", "n", "f">>, <<"n", "a", "n">>},
        date \in {<<"2", "0", "2", "4", "-", "0", "1", "-", "0", "1">>, <<"n", "o", "t", "-", "a", "-", "d", "a", "t", "e">>},
        email \in {None, <<"a", "@", "b", ".", "c">>, <<"n", "o", "t", "-", "a", "n", "-", "e", "m", "a", "i", "l">>},
        ip \in {None, <<"1", ".", "2", ".", "3", ".", "4">>, <<"9", "9", "9", ".", "9", "9", "9", ".", "0", ".", "1">>}}

\* dq.validate_batch(rows)
CallValidateBatch ==
    /\ call = NoCall
    /\ \E rows \in BatchInputs :
          call' = [fn |-> "validate_batch", rows |-> rows, out |-> validate_batch(rows)]
    /\ UNCHANGED <<disk, store, conn, quarantine, stage, run, pf, journal>>

\* dq.validate_row(raw): the call returns a result or raises.
CallValidateRow ==
    /\ call = NoCall
    /\ \E raw \in RowInputs :
          call' = IF validate_row_raises(raw)
                  THEN [fn |-> "validate_row", raw |-> raw, raised |-> TRUE]
                  ELSE [fn |-> "validate_row", raw |-> raw, raised |-> FALSE,
                        out |-> validate_row(raw)]
    /\ UNCHANGED <<disk, store, conn, quarantine, stage, run, pf, journal>>

\* ---- app/ge_expectations.py over the PandasDataset of great_expectations/ ----
\* The value pandas puts in a DataFrame cell whose row lacks the column.
NaN == <<"NaN">>

\* The longest list of rows given to validate_raw_rows.
MaxRawRows == 2

\* pd.DataFrame(raw_rows).columns: every key of some row (none for no rows).
DataFrameColumns(raw_rows) == UNION {DOMAIN raw_rows[i] : i \in DOMAIN raw_rows}

\* The series df[column].
Series(raw_rows, column) ==
    [i \in DOMAIN raw_rows |->
        IF column \in DOMAIN raw_rows[i] THEN raw_rows[i][column] ELSE NaN]

\* str(value)
StrOf(value) ==
    IF value = NaN THEN <<"n", "a", "n">>
    ELSE IF value = None THEN <<"N", "o", "n", "e">> ELSE value

\* Lines 9-14.
_non_empty(value) ==
    IF value = None THEN FALSE
    ELSE IF value # NaN THEN strip(value) # <<>> ELSE TRUE

\* Lines 17-18.
_rating_allowed(value) ==
    LET n == coerce_int(StrOf(value)) IN n # NoneInt /\ n[1] \in {1, 2, 3, 4, 5}

\* Lines 21-22.
_date_parsable(value) ==
    ~Falsy(parse_date_to_iso_utc(trim(IF value # None THEN StrOf(value) ELSE <<>>)))

\* Lines 25-30: the text is matched as it is written.
_email_valid(value) ==
    IF value = None THEN TRUE
    ELSE IF value # NaN /\ strip(value) = <<>> THEN TRUE
    ELSE EMAIL_RE(StrOf(value))

\* Lines 33-38.
_ip_valid(value) ==
    IF value = None THEN TRUE
    ELSE IF value # NaN /\ strip(value) = <<>> THEN TRUE
    ELSE IP_RE(StrOf(value))

\* The function an expectation of build_raw_reviews_dataset applies to a column.
ColumnFunction(column, value) ==
    CASE column \in {"Review Id", "Reviewer Id", "Business Id"} -> _non_empty(value)
      [] column = "Review Rating" -> _rating_allowed(value)
      [] column = "Review Date" -> _date_parsable(value)
      [] column = "Email Address" -> _email_valid(value)
      [] column = "Review IP Address" -> _ip_valid(value)

\* PandasDataset._run_expectation, lines 48-92 of great_expectations/dataset.py.
expect_table_columns_to_contain_set(raw_rows, column_set) ==
    [expectation_type |-> "expect_table_columns_to_contain_set", column |-> "",
     success |-> column_set \subseteq DataFrameColumns(raw_rows)]

expect_column_values_to_satisfy_function(raw_rows, column) ==
    [expectation_type |-> "expect_column_values_to_satisfy_function", column |-> column,
     success |->
        /\ column \in DataFrameColumns(raw_rows)
        /\ \A i \in DOMAIN raw_rows : ColumnFunction(column, Series(raw_rows, column)[i])]

\* Series.is_unique compares the values as they are stored.
expect_column_values_to_be_unique(raw_rows, column) ==
    [expectation_type |-> "expect_column_values_to_be_unique", column |-> column,
     success |->
        /\ column \in DataFrameColumns(raw_rows)
        /\ \A i, j \in DOMAIN raw_rows :
              i # j => Series(raw_rows, column)[i] # Series(raw_rows, column)[j]]

\* build_raw_reviews_dataset, lines 41-64: the expectations in the order they
\* are added, each with its outcome.
build_raw_reviews_dataset(raw_rows) ==
    <<expect_table_columns_to_contain_set(raw_rows,
          {RAW_REQUIRED_COLS[k] : k \in DOMAIN RAW_REQUIRED_COLS}),
      expect_column_values_to_satisfy_function(raw_rows, "Review Id"),
      expect_column_values_to_satisfy_function(raw_rows, "Reviewer Id"),
      expect_column_values_to_satisfy_function(raw_rows, "Business Id"),
      expect_column_values_to_satisfy_function(raw_rows, "Review Rating"),
      expect_column_values_to_satisfy_function(raw_rows, "Review Date"),
      expect_column_values_to_be_unique(raw_rows, "Review Id")>>
    \o (IF "Email Address" \in DataFrameColumns(raw_rows)
        THEN <<expect_column_values_to_satisfy_function(raw_rows, "Email Address")>>
        ELSE <<>>)
    \o (IF "Review IP Address" \in DataFrameColumns(raw_rows)
        THEN <<expect_column_values_to_satisfy_function(raw_rows, "Review IP Address")>>
        ELSE <<>>)

\* validate_raw_rows, lines 67-74, with PandasDataset.validate.
validate_raw_rows(raw_rows) ==
    LET results == build_raw_reviews_dataset(raw_rows)
        passed == {k \in DOMAIN results : results[k].success}
    IN [success |-> passed = DOMAIN results,
        results |-> results,
        statistics |-> [evaluated_expectations |-> Len(results),
                        successful_expectations |-> Cardinality(passed),
                        unsuccessful_expectations |-> Len(results) - Cardinality(passed)]]

\* _rating_allowed raises when coerce_int does.
validate_raw_rows_raises(raw_rows) ==
    \E i \in DOMAIN raw_rows :
        coerce_int_raises(StrOf(Series(raw_rows, "Review Rating")[i]))

\* Rows as the tests of the suite build them, with ids, emails and IPs that
\* are blank, repeated or written with surrounding blanks.
RawRowsInputs ==
    LET rows ==
          {RawRow(("Review Id" :> id) @@ ("Reviewer Id" :> <<"u", "1">>) @@
                  ("Business Id" :> <<"b", "1">>) @@ ("Review Rating" :> rating) @@
                  ("Review Date" :> <<"2", "0", "2", "4", "-", "0", "5", "-", "0", "1">>) @@
                  ("Email Address" :> email) @@ ("Review IP Address" :> ip)) :
              id \in {<<>>, <<"r", "1">>, <<" ", "r", "1">>},
              rating \in {<<"5">>, <<"9">>, <<"i", "n", "f">>},
              email \in {None, <<"a", "@", "b", ".", "c">>, <<" ", "a", "@", "b", ".", "c", " ">>},
              ip \in {<<"1", ".", "2", ".", "3", ".", "4">>, <<" ", "1", ".", "2", ".", "3", ".", "4">>}}
    IN UNION {[1..n -> rows] : n \in 0..MaxRawRows}

\* ge_expectations.validate_raw_rows(raw_rows)
CallValidateRawRows ==
    /\ call = NoCall
    /\ \E raw_rows \in RawRowsInputs :
          call' = IF validate_raw_rows_raises(raw_rows)
                  THEN [fn |-> "validate_raw_rows", rows |-> raw_rows, raised |-> TRUE]
                  ELSE [fn |-> "validate_raw_rows", rows |-> raw_rows, raised |-> FALSE,
                        out |-> validate_raw_rows(raw_rows)]
    /\ UNCHANGED <<disk, store, conn, quarantine, stage, run, pf, journal>>

NextCalls ==
    \/ CallValidateBatch
    \/ CallValidateRow
    \/ CallValidateRawRows

SpecCalls == Init /\ [][NextCalls]_vars

(***************************************************************************)
(* The HTTP API of api.py over a served store, configured as                *)
(* tests/test_api.py configures it                                          *)
(***************************************************************************)

\* API_TOKENS_DEFAULT and API_TOKENS_PII with one token each; API_IP_ALLOWLIST
\* is empty, so _ip_allowed is true of every client.
TOKENS_DEFAULT == {<<"d", "e", "f", "a", "u", "l", "t", "-", "t", "o", "k", "e", "n">>}

TOKENS_PII == {<<"p", "i", "i", "-", "t", "o", "k", "e", "n">>}

IP_ALLOWLIST == <<>>

_ip_allowed(ip) == IP_ALLOWLIST = <<>>

\* str.startswith
startswith(s, prefix) ==
    Len(s) >= Len(prefix) /\ SubSeq(s, 1, Len(prefix)) = prefix

\* s.split(" ", 1)[1] for an s that holds a blank: what follows the first one.
AfterFirstBlank(s) ==
    LET k == CHOOSE i \in 1..Len(s) : s[i] = " " /\ \A j \in 1..(i - 1) : s[j] # " "
    IN SubSeq(s, k + 1, Len(s))

\* require_token: the status it raises, or 200 and the roles of the context.
require_token(ip, authorization) ==
    IF ~_ip_allowed(ip) THEN [status |-> 403, roles |-> {}]
    ELSE IF authorization = None \/ authorization = <<>>
            \/ ~startswith(lower(authorization), <<"b", "e", "a", "r", "e", "r", " ">>)
    THEN [status |-> 401, roles |-> {}]
    ELSE LET token == strip(AfterFirstBlank(authorization)) IN
         IF token \in TOKENS_PII THEN [status |-> 200, roles |-> {"default", "pii_reader"}]
         ELSE IF token \in TOKENS_DEFAULT THEN [status |-> 200, roles |-> {"default"}]
         ELSE [status |-> 401, roles |-> {}]

allow_pii(ctx) == "pii_reader" \in ctx.roles

\* str(n) of an integer n >= 0.
RECURSIVE IntText(_)
IntText(n) ==
    IF n < 10 THEN <<DigitChars[n + 1]>>
    ELSE IntText(n \div 10) \o <<DigitChars[(n % 10) + 1]>>

\* One cell of a CSV line: NULL is written as the empty text, an INTEGER
\* column in decimal.
CsvCell(column, v) ==
    IF column = "review_rating" THEN (IF v = NoneInt THEN <<>> ELSE IntText(v[1]))
    ELSE IF column = "total_reviews" THEN IntText(v)
    ELSE IF v = None THEN <<>> ELSE v

CsvLine(headers, r) == [i \in 1..Len(headers) |-> CsvCell(headers[i], r[headers[i]])]

\* cursor.description of SELECT * on each view.
PublicColumns ==
    <<"review_id", "business_id", "user_id", "review_date", "review_rating",
      "review_title", "review_content">>

PrivateColumns == PublicColumns \o <<"email_address", "user_name", "review_ip_address">>

\* WHERE (? IS NULL OR review_date >= ?) AND (? IS NULL OR review_date <= ?)
InDateRange(r, from_, to) ==
    /\ from_ = None \/ ~SqlLess(r.review_date, from_)
    /\ to = None \/ ~SqlGreater(r.review_date, to)

\* The orders ORDER BY review_date may give the rows of rs: rows with equal
\* dates come in any order.
OrderedByDate(rs) ==
    {s \in [1..Cardinality(rs) -> rs] :
        /\ \A i, j \in DOMAIN s : i # j => s[i] # s[j]
        /\ \A i, j \in DOMAIN s : i < j => ~TextLess(s[j].review_date, s[i].review_date)}

\* The responses of a request that passed require_token with ctx, asks for
\* the rows whose key column holds id and gives the date bounds from_ and to.
ReviewResponses(db, key, id, from_, to, pii, ctx) ==
    LET private == pii /\ allow_pii(ctx)
        view == IF private THEN v_reviews_private(db) ELSE v_reviews_public(db)
        headers == IF private THEN PrivateColumns ELSE PublicColumns
    IN {[status |-> 200, headers |-> headers,
         body |-> [i \in DOMAIN s |-> CsvLine(headers, s[i])],
         rows_returned |-> Len(s)] :
            s \in OrderedByDate({r \in view : r[key] = id /\ InDateRange(r, from_, to)})}

\* GET /reviews/by-business, lines 65-94.
reviews_by_business(db, business_id, from_, to, pii, ctx) ==
    ReviewResponses(db, "business_id", business_id, from_, to, pii, ctx)

\* GET /reviews/by-user, lines 96-124.
reviews_by_user(db, user_id, from_, to, pii, ctx) ==
    ReviewResponses(db, "user_id", user_id, from_, to, pii, ctx)

UserAccountColumns ==
    <<"user_id", "email_address", "user_name", "reviewer_country",
      "first_review_date", "total_reviews">>

\* GET /users/{user_id}, lines 126-157: neither pii nor ctx is read.
user_account(db, user_id, pii, ctx) ==
    LET rows == {[user_id |-> u.user_id, email_address |-> u.email_hash,
                  user_name |-> u.user_name_redacted,
                  reviewer_country |-> u.reviewer_country,
                  first_review_date |-> u.first_review_date,
                  total_reviews |-> u.total_reviews] :
                    u \in {x \in db.user : x.user_id = user_id}}
    IN {[status |-> 200, headers |-> UserAccountColumns,
         body |-> [i \in DOMAIN s |-> CsvLine(UserAccountColumns, s[i])],
         rows_returned |-> Len(s)] :
            s \in {t \in [1..Cardinality(rows) -> rows] :
                      \A i, j \in DOMAIN t : i # j => t[i] # t[j]}}

\* The workbook with the given content.
WorkbookOf(bytes) == CHOOSE w \in Workbooks : w.bytes = bytes

\* The stores the API is started on: the empty schema, and the committed
\* store after runs that loaded workbook f1, or f2 and then f1.
ServedStores ==
    LET a == <<"d", "/", "a", ".", "x", "l", "s", "x">>
        b == <<"d", "/", "b", ".", "x", "l", "s", "x">>
        f1 == WorkbookOf(<<"f", "1">>)
        f2 == WorkbookOf(<<"f", "2">>)
    IN {EmptyDb, Loaded(EmptyDb, a, f1), Loaded(Loaded(EmptyDb, a, f2), b, f1)}

InitApi ==
    /\ disk = [p \in Paths |-> Absent]
    /\ store \in ServedStores
    /\ conn = store
    /\ quarantine = <<>>
    /\ stage = NoStage
    /\ run = IdleRun(0, "none")
    /\ pf = NoFrame
    /\ journal = [view |-> <<>>, durable |-> <<>>]
    /\ call = NoCall

\* The Authorization headers sent: none, another scheme, an unknown token,
\* the default token and the PII token.
Authorizations ==
    {None,
     <<"B", "a", "s", "i", "c", " ", "x">>,
     <<"B", "e", "a", "r", "e", "r", " ", "n", "o", "p", "e">>,
     <<"B", "e", "a", "r", "e", "r", " ">> \o
        <<"d", "e", "f", "a", "u", "l", "t", "-", "t", "o", "k", "e", "n">>,
     <<"b", "e", "a", "r", "e", "r", " ", " ">> \o
        <<"p", "i", "i", "-", "t", "o", "k", "e", "n">>}

BusinessIds == {<<"b", "1">>, <<"b", "2">>, <<"b", "9">>}

UserIds == {<<"u", "1">>, <<"u", "2">>, <<"u", "9">>}

DateBounds == {None, <<"2", "0", "2", "4">>}

\* The response to a request: the error of require_token, or one of the
\* responses of the endpoint.
Respond(request, ctx, responses) ==
    IF ctx.status # 200
    THEN call' = [fn |-> "api", request |-> request, response |-> [status |-> ctx.status]]
    ELSE \E resp \in responses :
            call' = [fn |-> "api", request |-> request, response |-> resp]

GetReviewsByBusiness ==
    /\ call = NoCall
    /\ \E authorization \in Authorizations, business_id \in BusinessIds,
          from_ \in DateBounds, to \in DateBounds, pii \in BOOLEAN :
          LET ctx == require_token(None, authorization) IN
          Respond([endpoint |-> "/reviews/by-business", authorization |-> authorization,
                   id |-> business_id, from_ |-> from_, to |-> to, pii |-> pii],
                  ctx, reviews_by_business(store, business_id, from_, to, pii, ctx))
    /\ UNCHANGED <<disk, store, conn, quarantine, stage, run, pf, journal>>

GetReviewsByUser ==
    /\ call = NoCall
    /\ \E authorization \in Authorizations, user_id \in UserIds,
          from_ \in DateBounds, to \in DateBounds, pii \in BOOLEAN :
          LET ctx == require_token(None, authorization) IN
          Respond([endpoint |-> "/reviews/by-user", authorization |-> authorization,
                   id |-> user_id, from_ |-> from_, to |-> to, pii |-> pii],
                  ctx, reviews_by_user(store, user_id, from_, to, pii, ctx))
    /\ UNCHANGED <<disk, store, conn, quarantine, stage, run, pf, journal>>

GetUserAccount ==
    /\ call = NoCall
    /\ \E authorization \in Authorizations, user_id \in UserIds, pii \in BOOLEAN :
          LET ctx == require_token(None, authorization) IN
          Respond([endpoint |-> "/users/{user_id}", authorization |-> authorization,
                   id |-> user_id, from_ |-> None, to |-> None, pii |-> pii],
                  ctx, user_account(store, user_id, pii, ctx))
    /\ UNCHANGED <<disk, store, conn, quarantine, stage, run, pf, journal>>

NextApi ==
    \/ GetReviewsByBusiness
    \/ GetReviewsByUser
    \/ GetUserAccount

SpecApi == InitApi /\ [][NextApi]_vars

(***************************************************************************)
(* Properties                                                              *)
(***************************************************************************)

\* A process_file call has returned or raised and build_stage_and_load has
\* not returned yet: pf still describes that call, conn is its connection.
CallEnded(outcome) == pf.outcome = outcome /\ run.pc # "idle"

\* load_audit held a row for the call's path and fingerprint when it began.
AuditedBefore ==
    \E a \in pf.pre.load_audit : a.file = pf.path /\ a.sha256 = sha256_file(pf.path)

\* C1: when load_audit already holds a row with the call's path and
\* fingerprint, process_file ends skipped: it returns (0, 0, 0, 0, 0, []),
\* leaves business, user, review and load_audit as they were and writes no
\* quarantine artifact.
C1_SkipIsNoOp ==
    (pf.outcome # "none" /\ run.pc # "idle" /\ AuditedBefore) =>
        /\ pf.outcome = "skipped"
        /\ pf.ret = <<0, 0, 0, 0, 0, <<>> >>
        /\ conn = pf.pre
        /\ Len(quarantine) = pf.pre_quarantine

\* C1 witness: the same bytes at the same path were processed in an earlier,
\* committed run, and the call has been skipped.
C1_Witness ==
    /\ CallEnded("skipped")
    /\ AuditedBefore
    /\ \E a \in store.load_audit : a.file = pf.path /\ a.rows_loaded > 0

\* C2 (as claimed): a call whose fingerprint appears in any load_audit row,
\* under whatever path, does not process the file.
C2_NeverReprocessedByFingerprint ==
    (pf.outcome \in {"running", "completed", "raised"} /\ run.pc # "idle") =>
        ~ \E a \in pf.pre.load_audit : a.sha256 = sha256_file(pf.path)

\* The audit rows the call added to the connection's view.
AuditAdded == conn.load_audit \ pf.pre.load_audit

\* C3: a call that is not skipped and returns inserts exactly one load_audit
\* row, whose file, sha256 and five counters are the path, the fingerprint
\* of the file and the counters the call returns.
C3_AuditRowMatchesReturn ==
    CallEnded("completed") =>
        /\ pf.pre.load_audit \subseteq conn.load_audit
        /\ Cardinality(AuditAdded) = 1
        /\ \A a \in AuditAdded :
              /\ a.file = pf.path
              /\ a.sha256 = sha256_file(pf.path)
              /\ <<a.rows_in, a.rows_loaded, a.rows_rejected, a.dq_pass, a.dq_fail>>
                    = SubSeq(pf.ret, 1, 5)

\* C3 witness: a completed call that loaded and rejected different numbers
\* of rows.
C3_Witness ==
    /\ CallEnded("completed")
    /\ pf.ret[2] = 2 /\ pf.ret[3] = 1

\* C4 (as claimed): every call, completed, skipped or aborted by an error,
\* adds exactly one load_audit row.
C4_EveryAttemptAudited ==
    (pf.outcome \in {"completed", "skipped", "raised"} /\ run.pc # "idle") =>
        Cardinality(conn.load_audit) = Cardinality(pf.pre.load_audit) + 1

\* C4 (amended): a call adds exactly one load_audit row when it completes
\* without being skipped; a skipped call and a call aborted by an error add
\* none, and after the rollback that follows the error the store holds no
\* audit row for that file.
C4_AuditOnlyOnCompletion ==
    /\ CallEnded("completed") =>
          Cardinality(conn.load_audit) = Cardinality(pf.pre.load_audit) + 1
    /\ CallEnded("skipped") => conn.load_audit = pf.pre.load_audit
    /\ CallEnded("raised") => conn.load_audit = pf.pre.load_audit
    /\ (pf.outcome = "raised" /\ run.pc = "idle") =>
          ~ \E a \in store.load_audit : a.file = pf.path /\ a.sha256 = pf.file_hash

\* C4 witness: a call was aborted by an error in a store that already holds
\* audit rows.
C4_Witness ==
    /\ pf.outcome = "raised"
    /\ run.pc = "idle"
    /\ store.load_audit # {}

\* C5: load_audit is append-only: no step of process_file,
\* build_stage_and_load or compute_metrics_summary modifies or deletes an
\* audit row, neither in the committed store nor in the connection's view
\* (where only the rollback of an aborted run withdraws rows that were never
\* committed).
C5_AuditAppendOnly ==
    [][/\ store.load_audit \subseteq store'.load_audit
       /\ run.pc # "raised" => conn.load_audit \subseteq conn'.load_audit]_vars

\* C5 witness: two runs have committed audit rows and compute_metrics_summary
\* has run on a store that holds them.
C5_Witness ==
    /\ run.nruns = 2
    /\ Cardinality(store.load_audit) >= 3
    /\ store.metrics_summary # {}

\* The positions of history h whose row references id in column col.
Referencing(h, col, id) == {k \in 1..Len(h) : h[k][col] = id}

\* In database db, reached by loading the rows of history h: every business
\* and user the rows reference is stored, with total_reviews the number of
\* loaded rows that reference it.
TotalsCount(db, h) ==
    /\ \A b \in db.business :
          b.total_reviews = Cardinality(Referencing(h, "business_id", b.business_id))
    /\ \A u \in db.user :
          u.total_reviews = Cardinality(Referencing(h, "user_id", u.user_id))
    /\ \A k \in 1..Len(h) :
          /\ \E b \in db.business : b.business_id = h[k].business_id
          /\ \E u \in db.user : u.user_id = h[k].user_id

\* No business or user of db has a lower total_reviews in db2.
TotalsNotLowered(db, db2) ==
    /\ \A b \in db.business : \E b2 \in db2.business :
          b2.business_id = b.business_id /\ b2.total_reviews >= b.total_reviews
    /\ \A u \in db.user : \E u2 \in db2.user :
          u2.user_id = u.user_id /\ u2.total_reviews >= u.total_reviews

\* C6: total_reviews of every business and user is the number of loaded
\* reviews that reference it (1 after the first, one more for each further
\* one, a re-ingested review_id included), and no step lowers it: not in the
\* committed store, and in the connection's view only the rollback of an
\* aborted run withdraws uncommitted loads.
C6_TotalReviewsCounts ==
    /\ [](TotalsCount(conn, journal.view) /\ TotalsCount(store, journal.durable))
    /\ [][/\ TotalsNotLowered(store, store')
          /\ run.pc # "raised" => TotalsNotLowered(conn, conn')]_vars

\* C6 witness: a committed business counts more reviews than the review
\* table holds for it, a review_id having been loaded again.
C6_Witness ==
    \E b \in store.business :
        /\ b.total_reviews >= 3
        /\ \E k1, k2 \in Referencing(journal.durable, "business_id", b.business_id) :
              k1 # k2 /\ journal.durable[k1].review_id = journal.durable[k2].review_id

\* The calendar fields of a normalized date YYYY-MM-DDTHH:MM:SSZ.
Chrono(d) ==
    <<Field(d, 1, 4), Field(d, 6, 7), Field(d, 9, 10),
      Field(d, 12, 13), Field(d, 15, 16), Field(d, 18, 19)>>

RECURSIVE FieldsLeq(_, _)
FieldsLeq(a, b) ==
    IF a = <<>> THEN TRUE
    ELSE IF Head(a) = Head(b) THEN FieldsLeq(Tail(a), Tail(b))
    ELSE Head(a) < Head(b)

\* d is not later than e.
NotLater(d, e) == FieldsLeq(Chrono(d), Chrono(e))

\* The review dates of the rows of h that reference id in column col.
DatesOf(h, col, id) == {h[k].review_date : k \in Referencing(h, col, id)}

IsMinimum(d, D) == d \in D /\ \A e \in D : NotLater(d, e)

IsMaximum(d, D) == d \in D /\ \A e \in D : NotLater(e, d)

DatesSpan(db, h) ==
    /\ \A b \in db.business :
          /\ IsMinimum(b.first_review_date, DatesOf(h, "business_id", b.business_id))
          /\ IsMaximum(b.last_review_date, DatesOf(h, "business_id", b.business_id))
    /\ \A u \in db.user :
          IsMinimum(u.first_review_date, DatesOf(h, "user_id", u.user_id))

\* C7: a business's first_review_date is the earliest and its
\* last_review_date the latest review_date of the rows upserted for its
\* business_id, and a user's first_review_date the earliest of the rows
\* upserted for its user_id, in whatever order the dates arrive.
C7_DatesAreMinMax ==
    DatesSpan(conn, journal.view) /\ DatesSpan(store, journal.durable)

\* C7 witness: 2024-01-01 was upserted for a business and then 2023-06-01;
\* the business has first_review_date 2023-06-01 and total_reviews 2.
C7_Witness ==
    /\ Len(journal.view) = 2
    /\ journal.view[1].review_date = IsoZ(2024, 1, 1, 0, 0, 0)
    /\ journal.view[2].review_date = IsoZ(2023, 6, 1, 0, 0, 0)
    /\ \E b \in conn.business :
          /\ b.business_id = journal.view[1].business_id
          /\ b.business_id = journal.view[2].business_id
          /\ b.first_review_date = IsoZ(2023, 6, 1, 0, 0, 0)
          /\ b.last_review_date = IsoZ(2024, 1, 1, 0, 0, 0)
          /\ b.total_reviews = 2

\* The row of h loaded last with review_id id.
LastLoaded(h, id) ==
    LET ks == Referencing(h, "review_id", id)
    IN h[CHOOSE k \in ks : \A k2 \in ks : k2 <= k]

LastWriteWins(db, h) ==
    /\ \A r1, r2 \in db.review : r1.review_id = r2.review_id => r1 = r2
    /\ \A r \in db.review :
          /\ Referencing(h, "review_id", r.review_id) # {}
          /\ LET n == LastLoaded(h, r.review_id)
             IN /\ r.review_date = n.review_date
                /\ r.review_rating = n.review_rating
                /\ r.review_title = n.review_title
                /\ r.review_content = n.review_content
                /\ r.review_ip_address = n.review_ip_address
                /\ r.review_ip_redacted = redact_ip(n.review_ip_address)
                /\ r.source_file = n.source_file
                /\ r.source_row = n.source_row

\* C8: the review table holds at most one row per review_id, and its date,
\* rating, title, content, IP, redacted IP, source_file and source_row are
\* those of the row loaded last with that review_id.
C8_LastWriteWins ==
    LastWriteWins(conn, journal.view) /\ LastWriteWins(store, journal.durable)

\* C8 witness: a committed review was loaded twice, from two files, with
\* different dates and ratings.
C8_Witness ==
    \E r \in store.review :
        \E k1, k2 \in Referencing(journal.durable, "review_id", r.review_id) :
            /\ k1 < k2
            /\ journal.durable[k1].source_file # journal.durable[k2].source_file
            /\ journal.durable[k1].review_date # journal.durable[k2].review_date
            /\ journal.durable[k1].review_rating # journal.durable[k2].review_rating

\* The rows of the file from row i on that have an error, as the quarantine
\* artifact shows them, in file order.
RECURSIVE RowsWithError(_, _, _, _)
RowsWithError(header, rows, dups, i) ==
    IF i > Len(rows) THEN <<>>
    ELSE (IF row_errs(rows[i], i - 1, dups) # <<>>
          THEN <<[cells |-> [c \in 1..Len(header) |-> GetOr(rows[i], header[c], <<>>)],
                  reason |-> row_errs(rows[i], i - 1, dups)]>>
          ELSE <<>>)
         \o RowsWithError(header, rows, dups, i + 1)

\* C9: after a completed call every data row of the file has gone to exactly
\* one destination.  The rows without error, and only they, are the returned
\* normalized rows (which the run adds to its stage rows) and have been
\* upserted into business, user and review; the rows with an error, and only
\* they, are the rows of the quarantine artifact the call wrote; business,
\* user and review are what the upserts of the rows without error make of
\* them.
C9_OneDestination ==
    CallEnded("completed") =>
        LET w == disk[pf.path]
            dups == validate_batch(w.rows).dups
            good == RowsWithoutError(pf.path, w.rows, dups, 1)
            bad == RowsWithError(w.header, w.rows, dups, 1)
            loaded == LoadRows(pf.pre, good)
        IN /\ Len(good) + Len(bad) = Len(w.rows)
           /\ pf.ret[6] = good
           /\ Len(run.stage_rows) >= Len(good)
           /\ SubSeq(run.stage_rows, Len(run.stage_rows) - Len(good) + 1,
                     Len(run.stage_rows)) = good
           /\ \A k \in 1..Len(good) :
                 /\ \E r \in conn.review : r.review_id = good[k].review_id
                 /\ \E b \in conn.business : b.business_id = good[k].business_id
                 /\ \E u \in conn.user : u.user_id = good[k].user_id
           /\ conn.business = loaded.business
           /\ conn.user = loaded.user
           /\ conn.review = loaded.review
           /\ IF bad = <<>>
              THEN Len(quarantine) = pf.pre_quarantine
              ELSE /\ Len(quarantine) = pf.pre_quarantine + 1
                   /\ quarantine[Len(quarantine)].rows = bad

\* C9 witness: a completed call on a file with rows of both kinds, in a
\* database that already held reviews.
C9_Witness ==
    /\ CallEnded("completed")
    /\ pf.ret[6] # <<>>
    /\ Len(quarantine) = pf.pre_quarantine + 1
    /\ pf.pre.review # {}

\* C10: a completed call on a file with N data rows returns rows_in = N,
\* rows_loaded = dq_pass = the number of rows for which validate_row reports
\* no error and which validate_batch does not flag, and rows_rejected =
\* dq_fail = N - rows_loaded; a row validate_row accepts but validate_batch
\* flags counts as rejected.
C10_Counters ==
    CallEnded("completed") =>
        LET rows == disk[pf.path].rows
            dups == validate_batch(rows).dups
            passed == {i \in 1..Len(rows) :
                          /\ validate_row(rows[i]).errors = <<>>
                          /\ ~ \E k \in 1..Len(dups) : dups[k] = i - 1}
        IN /\ pf.ret[1] = Len(rows)
           /\ pf.ret[2] = Cardinality(passed)
           /\ pf.ret[4] = Cardinality(passed)
           /\ pf.ret[3] = Len(rows) - Cardinality(passed)
           /\ pf.ret[5] = Len(rows) - Cardinality(passed)

\* C10 witness: a completed call on a file with a row that validate_row
\* accepts and validate_batch flags as a duplicate.
C10_Witness ==
    /\ CallEnded("completed")
    /\ LET rows == disk[pf.path].rows
           dups == validate_batch(rows).dups
       IN \E i \in 1..Len(rows) :
             /\ validate_row(rows[i]).is_valid
             /\ validate_row(rows[i]).errors = <<>>
             /\ \E k \in 1..Len(dups) : dups[k] = i - 1

\* The trimmed Review Id of row k (one-based) of rows.
IdOf(rows, k) == trim(Get(rows[k], "Review Id"))

\* C11: validate_batch flags zero-based index i exactly when row i has a
\* non-empty trimmed Review Id equal to the trimmed Review Id of an earlier
\* row; the indices are returned in ascending order, and per_row_errors
\* holds exactly one duplicate message for each flagged index and nothing
\* for any other index.
C11_BatchFlagsLaterOccurrences ==
    call.fn = "validate_batch" =>
        LET rows == call.rows
            dups == call.out.dups
            errs == call.out.per_row_errors
            flagged == {dups[k] : k \in 1..Len(dups)}
        IN /\ \A i \in 0..(Len(rows) - 1) :
                 i \in flagged <=>
                    /\ IdOf(rows, i + 1) # None
                    /\ IdOf(rows, i + 1) # <<>>
                    /\ \E j \in 1..i : IdOf(rows, j) = IdOf(rows, i + 1)
           /\ flagged \subseteq 0..(Len(rows) - 1)
           /\ \A k \in 1..(Len(dups) - 1) : dups[k] < dups[k + 1]
           /\ DOMAIN errs = flagged
           /\ \A i \in flagged : errs[i] = <<"Duplicate Review Id within file">>

\* C11 witness: the ids dup-1, dup-1, unique, dup-1 give [1, 3].
C11_Witness ==
    /\ call.fn = "validate_batch"
    /\ Len(call.rows) = 4
    /\ IdOf(call.rows, 1) = <<"d", "u", "p", "-", "1">>
    /\ IdOf(call.rows, 2) = IdOf(call.rows, 1)
    /\ IdOf(call.rows, 3) = <<"u", "n", "i", "q", "u", "e">>
    /\ IdOf(call.rows, 4) = IdOf(call.rows, 1)
    /\ call.out.dups = <<1, 3>>

\* The number of errors of errs with message msg.
ErrCount(errs, msg) == Cardinality({k \in 1..Len(errs) : errs[k].msg = msg})

\* 1 when the check fails, 0 when it passes.
Failing(check) == IF check THEN 1 ELSE 0

C13_RatingNeverRaises ==
    call.fn = "validate_row" =>
        /\ ~call.raised
        /\ LET r == Get(call.raw, "Review Rating")
               rating == coerce_int(GetOr(call.raw, "Review Rating", <<>>))
               errs == call.out.errors
               rating_errs == {k \in 1..Len(errs) : errs[k].msg = "Review Rating invalid"}
           IN IF rating # NoneInt /\ rating[1] \in 1..5
              THEN rating_errs = {}
              ELSE /\ ~call.out.is_valid
                   /\ Cardinality(rating_errs) = 1
                   /\ \A k \in rating_errs : errs[k].value = r

\* The audit rows of db in the order of their ids.
RECURSIVE AuditsInOrder(_)
AuditsInOrder(audits) ==
    IF audits = {} THEN <<>>
    ELSE LET a == CHOOSE x \in audits : \A y \in audits : x.id <= y.id
         IN <<a>> \o AuditsInOrder(audits \ {a})

\* The rows without error of the file an audit row stands for: the workbook
\* with the audited fingerprint, read under the audited path.
AuditedRows(a) ==
    LET w == CHOOSE x \in Workbooks : sha256_hex(x.bytes) = a.sha256
    IN RowsWithoutError(a.file, w.rows, validate_batch(w.rows).dups, 1)

RECURSIVE RowsOfAudits(_)
RowsOfAudits(as) ==
    IF as = <<>> THEN <<>>
    ELSE AuditedRows(Head(as)) \o RowsOfAudits(Tail(as))

\* C14: per-file all-or-nothing in the committed store.  The rows whose
\* upserts are committed are exactly the rows without error of the files
\* that have a committed audit row, file by file in audit order: every such
\* file has all its rows loaded (rows_loaded of them, each with its
\* business, user and review stored), a file without a committed audit row
\* has none, and after process_file has raised the store holds neither an
\* audit row nor any row of that call.
C14_FileAllOrNothing ==
    /\ journal.durable = RowsOfAudits(AuditsInOrder(store.load_audit))
    /\ \A a \in store.load_audit :
          /\ a.rows_loaded = Len(AuditedRows(a))
          /\ \A k \in 1..Len(AuditedRows(a)) :
                /\ \E r \in store.review : r.review_id = AuditedRows(a)[k].review_id
                /\ \E b \in store.business : b.business_id = AuditedRows(a)[k].business_id
                /\ \E u \in store.user : u.user_id = AuditedRows(a)[k].user_id
    /\ (pf.outcome = "raised" /\ run.pc = "idle") =>
          ~ \E a \in store.load_audit : a.file = pf.path /\ a.sha256 = pf.file_hash

\* C14 witness: process_file raised after it had upserted a row of the
\* file, in a run on a store that holds other files.
C14_Witness ==
    /\ pf.outcome = "raised"
    /\ run.pc = "idle"
    /\ pf.j >= 1
    /\ store.review # {}

\* C15 (as claimed): while a file of a run is being processed, every file
\* the run has completed before it has its audit row, and so its upserts,
\* in the committed store.
C15_CompletedFilesCommitted ==
    run.pc \in {"validate", "upsert", "raised"} =>
        \A k \in 1..(run.idx - 1) :
            \E a \in store.load_audit :
                a.file = run.files[k] /\ a.sha256 = sha256_file(run.files[k])

\* C16 (as claimed): row content never makes a file fail: a row that
\* validate_row accepts and validate_batch does not flag is upserted without
\* a storage error, so no call raises among its upserts.
C16_UpsertsNeverFail ==
    ~ (pf.outcome = "raised" /\ pf.i = Len(pf.raw_rows) /\ pf.j < Len(pf.good_norm))

\* The one-based indices, in ascending order and from index i on, of the
\* rows that validate_row reports an error for or validate_batch flags.
RECURSIVE RejectedFrom(_, _, _)
RejectedFrom(rows, dups, i) ==
    IF i > Len(rows) THEN <<>>
    ELSE (IF validate_row(rows[i]).errors # <<>> \/ InDups(i - 1, dups)
          THEN <<i>> ELSE <<>>)
         \o RejectedFrom(rows, dups, i + 1)

\* C17: a completed call writes exactly one quarantine artifact when
\* rows_rejected > 0 and none when rows_rejected = 0.  The artifact has the
\* file's header plus one trailing reason column and one entry per rejected
\* row, in file order, with the row's cells and a reason made of every error
\* validate_row reports for the row, followed by the duplicate error when
\* validate_batch flags the row.
C17_QuarantineArtifact ==
    CallEnded("completed") =>
        LET w == disk[pf.path]
            dups == validate_batch(w.rows).dups
            rejected == RejectedFrom(w.rows, dups, 1)
            written == SubSeq(quarantine, pf.pre_quarantine + 1, Len(quarantine))
        IN /\ Len(rejected) = pf.ret[3]
           /\ IF pf.ret[3] = 0 THEN written = <<>>
              ELSE /\ Len(written) = 1
                   /\ written[1].header = w.header \o <<"__reason__">>
                   /\ Len(written[1].rows) = pf.ret[3]
                   /\ \A k \in 1..Len(rejected) :
                         LET raw == w.rows[rejected[k]]
                             entry == written[1].rows[k]
                         IN /\ Len(entry.cells) = Len(w.header)
                            /\ \A c \in 1..Len(w.header) :
                                  entry.cells[c] =
                                     IF w.header[c] \in DOMAIN raw
                                     THEN raw[w.header[c]] ELSE <<>>
                            /\ entry.reason =
                                  validate_row(raw).errors
                                  \o (IF InDups(rejected[k] - 1, dups)
                                      THEN <<DupError>> ELSE <<>>)

\* C17 witness: a completed call has written an artifact with a row that is
\* rejected for two errors of validate_row and for being a duplicate.
C17_Witness ==
    /\ CallEnded("completed")
    /\ Len(quarantine) = pf.pre_quarantine + 1
    /\ \E k \in 1..Len(quarantine[Len(quarantine)].rows) :
          LET reason == quarantine[Len(quarantine)].rows[k].reason
          IN Len(reason) = 3 /\ reason[3] = DupError

\* C18: the stage artifact a run writes holds exactly the rows validated in
\* that run.  While the run goes from file to file, the rows it has
\* collected for the stage are the rows it has loaded since it began, in
\* order (a skipped file adds none, and no row of an earlier run is among
\* them); the artifact written at the end holds those rows, and the
\* returned stage row count is their number and equals the run's total
\* dq_pass.
C18_StageIsThisRun ==
    /\ run.pc = "loop" =>
          /\ journal.view = journal.durable \o run.stage_rows
          /\ Len(run.stage_rows) = run.agg[4]
          /\ \A k \in 1..Len(run.stage_rows) :
                \E f \in 1..(run.idx - 1) :
                    run.stage_rows[k].source_file = basename(run.files[f])
    /\ (run.pc = "idle" /\ run.result = "returned") =>
          /\ run.ret[7] = Len(run.stage_rows)
          /\ run.ret[7] = run.ret[5]
          /\ run.stage_rows # <<>> =>
                /\ stage.rows = run.stage_rows
                /\ \A k \in 1..Len(stage.rows) :
                      DOMAIN stage.rows[k] = {stage.columns[c] : c \in 1..Len(stage.columns)}

\* C18 witness: a second run has skipped a file loaded by the first run and
\* has written an artifact with the rows of the other file only.
C18_Witness ==
    /\ run.pc = "idle"
    /\ run.result = "returned"
    /\ run.nruns = 2
    /\ Len(run.files) = 2
    /\ pf.outcome = "skipped"
    /\ Len(stage.rows) >= 2
    /\ stage.rows = run.stage_rows
    /\ Len(journal.durable) > Len(stage.rows)

\* The review and the user a row of the private view is made of.
BaseOf(db, v) ==
    CHOOSE p \in db.review \X db.user :
        p[1].review_id = v.review_id /\ p[2].user_id = p[1].user_id

IsMasked(name) == Len(name) = 4 /\ SubSeq(name, 2, 4) = <<"*", "*", "*">>

PiiColumns == {"email_address", "user_name", "review_ip_address"}

HasPiiReader(authorization) == "pii_reader" \in require_token(None, authorization).roles

C20_PiiColumnsNeedRole ==
    (call.fn = "api" /\ call.response.status = 200
        /\ ~HasPiiReader(call.request.authorization))
    => \A i \in DOMAIN call.response.headers : call.response.headers[i] \notin PiiColumns


\* The value a column holds after an upsert onto an existing row: the stored
\* one when the incoming one is null, the incoming one otherwise.
KeptOrReplaced(stored, incoming) == IF incoming = None THEN stored ELSE incoming

\* The row being upserted by the next pass of the upsert loop.
Incoming == pf.good_norm[pf.j + 1]

\* C21: an upsert onto an existing business or user never replaces a
\* populated field with a null.  For business_name, and for the user's
\* email_address, email_hash, user_name, user_name_redacted and
\* reviewer_country, a null incoming value leaves the stored value as it was
\* and a non-null incoming value replaces it.
C21_NullNeverOverwrites ==
    [][UpsertRow =>
        /\ \A o \in BusinessConflicts(conn, Incoming) :
              \E b \in conn'.business :
                 /\ b.business_id = o.business_id
                 /\ b.business_name = KeptOrReplaced(o.business_name, Incoming.business_name)
        /\ ~upsert_business_raises(conn, Incoming) =>
              \A o \in UserConflicts(conn, Incoming) :
                 \E u \in conn'.user :
                    /\ u.user_id = o.user_id
                    /\ u.email_address = KeptOrReplaced(o.email_address, Incoming.email_address)
                    /\ u.email_hash =
                          KeptOrReplaced(o.email_hash, email_hash_value(Incoming.email_address))
                    /\ u.user_name = KeptOrReplaced(o.user_name, Incoming.user_name)
                    /\ u.user_name_redacted =
                          KeptOrReplaced(o.user_name_redacted, redact_name(Incoming.user_name))
                    /\ u.reviewer_country =
                          KeptOrReplaced(o.reviewer_country, Incoming.reviewer_country)]_vars

\* A user that was upserted with an email and then again with none still has
\* the email and its hash, and a business whose name was upserted twice holds
\* the later name.
C21_Witness ==
    \E k1, k2 \in DOMAIN journal.view :
        /\ k1 < k2
        /\ journal.view[k1].user_id = journal.view[k2].user_id
        /\ journal.view[k1].business_id = journal.view[k2].business_id
        /\ journal.view[k1].email_address # None
        /\ journal.view[k2].email_address = None
        /\ journal.view[k2].business_name # None
        /\ journal.view[k2].business_name # journal.view[k1].business_name
        /\ \E u \in conn.user :
              /\ u.user_id = journal.view[k1].user_id
              /\ u.email_address = journal.view[k1].email_address
              /\ u.email_hash = email_hash_value(journal.view[k1].email_address)
              /\ u.total_reviews >= 2
        /\ \E b \in conn.business :
              /\ b.business_id = journal.view[k2].business_id
              /\ b.business_name = journal.view[k2].business_name


\* C22: within process_file each row with zero errors is upserted at once.
\* While a call runs, every good row other than the one validated last is
\* already upserted, and the call's quarantine artifact is written only after
\* every good row is upserted.
C22_UpsertedImmediately ==
    pf.outcome = "running" =>
        /\ \A k \in DOMAIN pf.good_norm :
              pf.good_norm[k].source_row < pf.i + 1 => k <= pf.j
        /\ Len(quarantine) > pf.pre_quarantine => pf.j = Len(pf.good_norm)


\* validate_row accepts every row of the batch and validate_batch flags none.
RowRulesAccept(rows) ==
    /\ \A i \in DOMAIN rows : validate_row(rows[i]).is_valid
    /\ validate_batch(rows).dups = <<>>

\* C23: the expectation suite mirrors the row rules.  For every batch of raw
\* rows validate_raw_rows reports success exactly when validate_row accepts
\* every row of the batch and validate_batch flags no row as a duplicate.
C23_SuiteMirrorsRowRules ==
    (call.fn = "validate_raw_rows" /\ ~call.raised)
    => (call.out.success <=> RowRulesAccept(call.rows))


\* The sum of the integer column `column` over the rows of a table.
RECURSIVE SumColumn(_, _)
SumColumn(rows, column) ==
    IF rows = {} THEN 0
    ELSE LET r == CHOOSE x \in rows : TRUE
         IN r[column] + SumColumn(rows \ {r}, column)

Conserved(db) ==
    /\ SumColumn(db.business, "total_reviews") = SumColumn(db.user, "total_reviews")
    /\ SumColumn(db.user, "total_reviews") = SumColumn(db.load_audit, "rows_loaded")

\* C24: counter conservation.  In the committed store, and in the
\* connection's view whenever a process_file call has just completed, the sum
\* of business.total_reviews equals the sum of user.total_reviews, and both
\* equal the sum of load_audit.rows_loaded.
C24_CountersConserved ==
    /\ Conserved(store)
    /\ CallEnded("completed") => Conserved(conn)

\* A committed store with two audited files, at least two businesses and two
\* users, and a business counted more than once.
C24_Witness ==
    /\ Cardinality(store.load_audit) >= 2
    /\ Cardinality(store.business) >= 2
    /\ Cardinality(store.user) >= 2
    /\ \E b \in store.business : b.total_reviews >= 2
    /\ SumColumn(store.load_audit, "rows_loaded") >= 4


\* Every review of db names a business row and a user row of db.
ReferencesResolve(db) ==
    \A r \in db.review :
        /\ \E b \in db.business : b.business_id = r.business_id
        /\ \E u \in db.user : u.user_id = r.user_id

DerivedFieldsAgree(db) ==
    /\ \A u \in db.user :
          /\ u.email_hash = email_hash_value(u.email_address)
          /\ u.user_name_redacted = redact_name(u.user_name)
    /\ \A r \in db.review : r.review_ip_redacted = redact_ip(r.review_ip_address)

\* C26: derived fields stay consistent with the raw fields they are derived
\* from.  Every user row has email_hash = email_hash_value(email_address) and
\* user_name_redacted = redact_name(user_name), and every review row has
\* review_ip_redacted = redact_ip(review_ip_address), in the connection's
\* view and in the committed store.
C26_DerivedFieldsConsistent == DerivedFieldsAgree(conn) /\ DerivedFieldsAgree(store)


\* total_reviews of the row of `rows` keyed by id under `key`, 0 without one.
CountOf(rows, key, id) ==
    IF \E x \in rows : x[key] = id
    THEN (CHOOSE x \in rows : x[key] = id).total_reviews ELSE 0

\* Each business and each user is counted at least as often as reviews name it.
CountsCoverReviews(db) ==
    /\ \A b \in db.business :
          b.total_reviews >= Cardinality({r \in db.review : r.business_id = b.business_id})
    /\ \A u \in db.user :
          u.total_reviews >= Cardinality({r \in db.review : r.user_id = u.user_id})

\* C27: a pass of the upsert loop that loads a row whose review_id is already
\* stored leaves the stored review's business_id and user_id as they were and
\* overwrites its date, rating, title, content, IP and lineage, while the
\* business and the user the incoming row names are inserted or get
\* total_reviews + 1.  So total_reviews of a business or a user is always at
\* least the number of review rows that name it.
C27_ReingestKeepsKeys ==
    /\ [](CountsCoverReviews(conn) /\ CountsCoverReviews(store))
    /\ [][(UpsertRow /\ pf'.j = pf.j + 1) =>
            /\ \A o \in ReviewConflicts(conn, Incoming) :
                  \E r \in conn'.review :
                     /\ r.review_id = o.review_id
                     /\ r.business_id = o.business_id
                     /\ r.user_id = o.user_id
                     /\ r.review_date = Incoming.review_date
                     /\ r.review_rating = Incoming.review_rating
                     /\ r.review_title = Incoming.review_title
                     /\ r.review_content = Incoming.review_content
                     /\ r.review_ip_address = Incoming.review_ip_address
                     /\ r.source_file = Incoming.source_file
                     /\ r.source_row = Incoming.source_row
            /\ CountOf(conn'.business, "business_id", Incoming.business_id)
                  = CountOf(conn.business, "business_id", Incoming.business_id) + 1
            /\ CountOf(conn'.user, "user_id", Incoming.user_id)
                  = CountOf(conn.user, "user_id", Incoming.user_id) + 1]_vars

\* A stored review that was loaded again by a row naming another business and
\* another user: it carries the later row's lineage and date and still names
\* the first business and user, and the later row's business is counted more
\* often than reviews name it.
C27_Witness ==
    \E r \in conn.review : \E k \in DOMAIN journal.view :
        /\ journal.view[k].review_id = r.review_id
        /\ journal.view[k].business_id # r.business_id
        /\ journal.view[k].user_id # r.user_id
        /\ journal.view[k].source_file = r.source_file
        /\ journal.view[k].source_row = r.source_row
        /\ journal.view[k].review_date = r.review_date
        /\ CountOf(conn.business, "business_id", journal.view[k].business_id)
              > Cardinality({x \in conn.review :
                                x.business_id = journal.view[k].business_id})


\* The trimmed Review Id of data row k (one-based) of the file being processed.
FileId(k) == trim(Get(pf.raw_rows[k], "Review Id"))

\* C28: within one file at most one row per review_id is loaded, and it is
\* the first row of the file carrying that id.  Every row process_file has
\* found good has no earlier row with the same trimmed id, and no two good
\* rows share a review_id.
C28_OnlyFirstOccurrenceLoads ==
    pf.outcome \in {"running", "completed", "raised"} =>
        /\ \A g \in DOMAIN pf.good_norm :
              \A k \in 1..(pf.good_norm[g].source_row - 2) :
                 FileId(k) # pf.good_norm[g].review_id
        /\ \A g, h \in DOMAIN pf.good_norm :
              g # h => pf.good_norm[g].review_id # pf.good_norm[h].review_id

\* A completed call on a file whose first row with some id fails validate_row
\* and whose later row with that id passes it: no row with the id is loaded,
\* and the later row is in the quarantine artifact.
C28_Witness ==
    /\ CallEnded("completed")
    /\ \E k1, k2 \in DOMAIN pf.raw_rows :
          /\ k1 < k2
          /\ \A k \in 1..(k1 - 1) : FileId(k) # FileId(k1)
          /\ FileId(k2) = FileId(k1)
          /\ ~validate_row(pf.raw_rows[k1]).is_valid
          /\ validate_row(pf.raw_rows[k2]).is_valid
          /\ \A g \in DOMAIN pf.good_norm : pf.good_norm[g].review_id # FileId(k1)
          /\ pf.rows_loaded = Len(pf.good_norm)
          /\ pf.rows_loaded >= 1
          /\ \E b \in DOMAIN pf.bad_rows : pf.bad_rows[b].rownum = k2 + 1

====
